---------------------------- MODULE Spec2Model ----------------------------
(***************************************************************************)
(* A model of the Sauce Labs MCP servers (src/src/sauce_api_mcp/main.py    *)
(* and src/src/sauce_mcp/rdc_openapi.py): the transport normalizer         *)
(* sauce_api_call, the asset-manifest helper, the HAR tools                *)
(* filter_har_data / get_network_har_file with the in-memory HAR cache,    *)
(* and the HAR entry filter.                                               *)
(*                                                                         *)
(* Python values are modelled as follows.                                  *)
(*   str        a sequence of one-character strings, so that `in`          *)
(*              (substring), lower() and == are computed on characters     *)
(*   Optional   <<>> for None, <<v>> for a supplied value v                *)
(*   list       a sequence                                                 *)
(*   dict       a record; a key that is absent is a field that is absent   *)
(* A HAR entry held in a document is named by its index in EntryPool.      *)
(***************************************************************************)
EXTENDS Integers, Sequences, FiniteSets, TLC

VARIABLES
    \* ---- the HAR tools of SauceLabsAgent (specification Spec)
    remote_har,     \* job -> entries of the network.har asset the vendor holds
    har_cache,      \* self._har_cache: job -> NotCached or the stored document
    pc,             \* task -> where the tool coroutine of that task is suspended
    call,           \* task -> the invocation the task is running
    sent,           \* task -> the HTTP requests that invocation has issued so far
    result,         \* what the step just taken returned to the MCP host, if it did
    har_fetched,    \* job -> a filter_har_data call received the HAR with a 200
    \* ---- the entry filter applied to one document (specification SpecFilter)
    f_entries,      \* the entries array filtered
    f_criteria,     \* the four filter arguments
    f_out,          \* the outputs of the filter loop so far: of the document, then
                    \* of that output filtered again
    \* ---- one sauce_api_call invocation (specification SpecApi)
    api_pc,         \* "idle", "awaiting" (request sent), "returned"
    api_call,       \* the agent and the arguments of the invocation
    api_sent,       \* the requests client.request was given: their query parameters
    api_ret,        \* what sauce_api_call returned, or how it ended
    \* ---- process start: main() of either server (specification SpecMain)
    program,        \* "main" (sauce_api_mcp.main) or "rdc" (sauce_mcp.rdc_openapi)
    environ,        \* os.environ: variable name -> None or its value
    isatty,         \* stream name -> whether it is attached to a terminal
    main_pc,        \* the statement of main() that runs next, or how it ended
    getenv_log,     \* the environment variables os.getenv has been asked for
    client,         \* None, or the base URL of the httpx.AsyncClient constructed
    exit_status,    \* None while the process lives, else Some(status)
    \* ---- one invocation of an endpoint tool (specification SpecTools)
    tool_pc,        \* "idle", "awaiting" (request sent), "returned"
    tool_call,      \* the agent, the tool and its arguments
    tool_sent,      \* the requests the tool has issued: their query parameters
    tool_result     \* the value the tool returned, or the exception it raised

har_vars    == <<remote_har, har_cache, pc, call, sent, result, har_fetched>>
filter_vars == <<f_entries, f_criteria, f_out>>
api_vars    == <<api_pc, api_call, api_sent, api_ret>>
main_vars   == <<program, environ, isatty, main_pc, getenv_log, client, exit_status>>
tool_vars   == <<tool_pc, tool_call, tool_sent, tool_result>>
vars        == <<har_vars, filter_vars, api_vars, main_vars, tool_vars>>

---------------------------------------------------------------------------
(* Bounds of the model.                                                    *)
MaxEntries == 2     \* longest HAR entries array drawn in Init
MaxArgs == 2        \* most optional arguments a caller supplies in one invocation

---------------------------------------------------------------------------
(* Python helpers.                                                         *)

None == <<>>
Some(v) == <<v>>
EmptyDict == <<>>

\* dict.get(key, default)
Get(d, key, default) == IF key \in DOMAIN d THEN d[key] ELSE default

\* bool(x) of an Optional[str] / Optional[list]: None, "" and [] are falsy
Truthy(opt) == opt # None /\ opt[1] # <<>>

\* x in list
InList(x, list) == \E i \in 1..Len(list) : list[i] = x

\* needle in haystack, for str
Contains(haystack, needle) ==
    \E i \in 0..(Len(haystack) - Len(needle)) :
        SubSeq(haystack, i + 1, i + Len(needle)) = needle

UpperChars == <<"A","B","C","D","E","F","G","H","I","J","K","L","M",
                "N","O","P","Q","R","S","T","U","V","W","X","Y","Z">>
LowerChars == <<"a","b","c","d","e","f","g","h","i","j","k","l","m",
                "n","o","p","q","r","s","t","u","v","w","x","y","z">>

LowerChar(c) ==
    IF \E i \in 1..26 : UpperChars[i] = c
    THEN LowerChars[CHOOSE i \in 1..26 : UpperChars[i] = c]
    ELSE c

\* str.lower()
Lower(s) == [i \in 1..Len(s) |-> LowerChar(s[i])]

---------------------------------------------------------------------------
(* String literals of the source, character by character.                  *)

analytics_domains ==
    << <<"g", "o", "o", "g", "l", "e", "-", "a", "n", "a", "l", "y", "t", "i", "c", "s">>,
       <<"g", "o", "o", "g", "l", "e", "t", "a", "g", "m", "a", "n", "a", "g", "e", "r">>,
       <<"g", "t", "a", "g">>,
       <<"f", "a", "c", "e", "b", "o", "o", "k", ".", "c", "o", "m", "/", "t", "r">>,
       <<"s", "c", "o", "r", "e", "c", "a", "r", "d", "r", "e", "s", "e", "a", "r", "c", "h">>,
       <<"c", "o", "m", "s", "c", "o", "r", "e">>,
       <<"a", "d", "o", "b", "e", ".", "c", "o", "m">>,
       <<"o", "m", "n", "i", "t", "u", "r", "e">>,
       <<"c", "h", "a", "r", "t", "b", "e", "a", "t">>,
       <<"h", "o", "t", "j", "a", "r">>,
       <<"m", "i", "x", "p", "a", "n", "e", "l">>,
       <<"a", "m", "p", "l", "i", "t", "u", "d", "e">>,
       <<"s", "e", "g", "m", "e", "n", "t">>,
       <<"a", "n", "a", "l", "y", "t", "i", "c", "s">>,
       <<"t", "r", "a", "c", "k", "i", "n", "g">>,
       <<"s", "t", "a", "c", "k", "a", "d", "a", "p", "t">>,
       <<"d", "o", "u", "b", "l", "e", "c", "l", "i", "c", "k">>,
       <<"g", "o", "o", "g", "l", "e", "s", "y", "n", "d", "i", "c", "a", "t", "i", "o", "n">>,
       <<"a", "m", "a", "z", "o", "n", "-", "a", "d", "s", "y", "s", "t", "e", "m">> >>

social_domains ==
    << <<"f", "a", "c", "e", "b", "o", "o", "k", ".", "c", "o", "m">>,
       <<"t", "w", "i", "t", "t", "e", "r", ".", "c", "o", "m">>,
       <<"i", "n", "s", "t", "a", "g", "r", "a", "m", ".", "c", "o", "m">>,
       <<"l", "i", "n", "k", "e", "d", "i", "n", ".", "c", "o", "m">>,
       <<"p", "i", "n", "t", "e", "r", "e", "s", "t", ".", "c", "o", "m">>,
       <<"s", "n", "a", "p", "c", "h", "a", "t", ".", "c", "o", "m">>,
       <<"t", "i", "k", "t", "o", "k", ".", "c", "o", "m">>,
       <<"y", "o", "u", "t", "u", "b", "e", ".", "c", "o", "m">>,
       <<"f", "b", ".", "c", "o", "m">>,
       <<"t", ".", "c", "o">>,
       <<"l", "i", "n", "k", "e", "d", "i", "n">>,
       <<"p", "i", "n", "t", "e", "r", "e", "s", "t">>,
       <<"s", "n", "a", "p", "c", "h", "a", "t">>,
       <<"t", "i", "k", "t", "o", "k">> >>

font_extensions ==
    << <<".", "w", "o", "f", "f">>,
       <<".", "w", "o", "f", "f", "2">>,
       <<".", "t", "t", "f">>,
       <<".", "o", "t", "f">>,
       <<".", "e", "o", "t">> >>

font_types ==
    << <<"F", "o", "n", "t">>,
       <<"f", "o", "n", "t">> >>

image_extensions ==
    << <<".", "j", "p", "g">>,
       <<".", "j", "p", "e", "g">>,
       <<".", "p", "n", "g">>,
       <<".", "g", "i", "f">>,
       <<".", "w", "e", "b", "p">>,
       <<".", "s", "v", "g">>,
       <<".", "i", "c", "o">> >>

str_XHR == <<"X", "H", "R">>
str_Fetch == <<"F", "e", "t", "c", "h">>
str_Image == <<"I", "m", "a", "g", "e">>
str_Script == <<"S", "c", "r", "i", "p", "t">>
str_Font == <<"F", "o", "n", "t">>
str_js == <<".", "j", "s">>
str_content_type == <<"c", "o", "n", "t", "e", "n", "t", "-", "t", "y", "p", "e">>
str_json == <<"j", "s", "o", "n">>
str_Content_Type == <<"C", "o", "n", "t", "e", "n", "t", "-", "T", "y", "p", "e">>
str_app_json == <<"a", "p", "p", "l", "i", "c", "a", "t", "i", "o", "n", "/", "j", "s", "o", "n">>
str_text_html == <<"t", "e", "x", "t", "/", "h", "t", "m", "l">>
url_script == <<"h", "t", "t", "p", ":", "/", "/", "a", ".", "i", "o", "/", "A", "p", "p", ".", "J", "S">>
url_api == <<"h", "t", "t", "p", ":", "/", "/", "a", ".", "i", "o", "/", "a", "p", "i">>
url_image == <<"h", "t", "t", "p", ":", "/", "/", "c", "d", "n", ".", "i", "o", "/", "x", ".", "p", "n", "g">>
url_analytics == <<"h", "t", "t", "p", ":", "/", "/", "g", "t", "a", "g", ".", "i", "o", "/", "t">>
url_font == <<"h", "t", "t", "p", ":", "/", "/", "t", ".", "c", "o", "/", "f", ".", "w", "o", "f", "f">>
pat_IO == <<"I", "O">>
pat_cdn == <<"c", "d", "n">>
pat_gtag == <<"G", "t", "a", "g">>

cat_analytics == <<"a", "n", "a", "l", "y", "t", "i", "c", "s">>
cat_social == <<"s", "o", "c", "i", "a", "l">>
cat_api == <<"a", "p", "i">>
cat_fonts == <<"f", "o", "n", "t", "s">>
cat_images == <<"i", "m", "a", "g", "e", "s">>
cat_scripts == <<"s", "c", "r", "i", "p", "t", "s">>
cat_errors == <<"e", "r", "r", "o", "r", "s">>
cat_slow == <<"s", "l", "o", "w">>
cat_third_party == <<"t", "h", "i", "r", "d", "-", "p", "a", "r", "t", "y">>
cat_video == <<"v", "i", "d", "e", "o">>

---------------------------------------------------------------------------
(* The HAR entries the model draws documents from.  Index 6 is an entry    *)
(* with no request, response, _resourceType or time at all.                *)

EntryPool ==
    << [request |-> [url |-> url_script], _resourceType |-> str_Script,
        response |-> [status |-> 200, headers |-> <<>>], time |-> 120],
       [request |-> [url |-> url_api], _resourceType |-> str_XHR,
        response |-> [status |-> 404,
                      headers |-> << [name |-> str_Content_Type, value |-> str_app_json] >>],
        time |-> 1001],
       [request |-> [url |-> url_image], _resourceType |-> str_Image,
        response |-> [status |-> 500,
                      headers |-> << [name |-> str_content_type, value |-> str_text_html] >>],
        time |-> 1000],
       [request |-> [url |-> url_analytics], _resourceType |-> str_Fetch,
        response |-> [status |-> 301], time |-> 2500],
       [request |-> [url |-> url_font], _resourceType |-> str_Font,
        response |-> [status |-> 400, headers |-> <<>>], time |-> 999],
       EmptyDict >>

EntryIds == 1..Len(EntryPool)

\* The entries the documents of the cache model (Spec) are made of.
CacheEntryIds == {1, 2, 3}

RECURSIVE SeqsUpTo(_, _)
\* every sequence over ids of length at most n
SeqsUpTo(ids, n) ==
    IF n = 0 THEN {<<>>}
    ELSE LET shorter == SeqsUpTo(ids, n - 1)
         IN  shorter \cup {Append(s, i) : s \in {x \in shorter : Len(x) = n - 1}, i \in ids}

---------------------------------------------------------------------------
(* The HAR filter: _should_include_entry and _matches_category.            *)

\* any(p in s for p in patterns)
AnyIn(patterns, s) == \E i \in 1..Len(patterns) : Contains(s, patterns[i])

\* Faulty variant: the comparison taken strictly
is_error_above_400(status_code) == status_code > 400

\* the "errors" category: status_code >= 400
is_error(status_code) == status_code >= 400

\* Faulty variant: the cutoff itself counted as slow
is_slow_from_1000(time_total) == time_total >= 1000

\* the "slow" category: time_total > 1000
is_slow(time_total) == time_total > 1000

\* Faulty variant: no entry counts as third-party
is_third_party_never(url) == FALSE

\* the "third-party" category: return True, whatever the URL ("simplified")
is_third_party(url) == TRUE

matches_category(entry, category, url, resource_type, status_code) ==
    LET time_total == Get(entry, "time", 0)
    IN  IF category = cat_analytics THEN AnyIn(analytics_domains, url)
        ELSE IF category = cat_social THEN AnyIn(social_domains, url)
        ELSE IF category = cat_api THEN
            LET content_type == Get(Get(entry, "response", EmptyDict), "headers", <<>>)
                is_json == \E i \in 1..Len(content_type) :
                              /\ Lower(Get(content_type[i], "name", <<>>)) = str_content_type
                              /\ Contains(Lower(Get(content_type[i], "value", <<>>)), str_json)
            IN  InList(resource_type, <<str_XHR, str_Fetch>>) \/ is_json
        ELSE IF category = cat_fonts THEN
            AnyIn(font_extensions, url) \/ AnyIn(font_types, resource_type)
        ELSE IF category = cat_images THEN
            resource_type = str_Image \/ AnyIn(image_extensions, url)
        ELSE IF category = cat_scripts THEN
            resource_type = str_Script \/ Contains(url, str_js)
        ELSE IF category = cat_errors THEN is_error(status_code)
        ELSE IF category = cat_slow THEN is_slow(time_total)
        ELSE IF category = cat_third_party THEN is_third_party(url)
        ELSE FALSE

\* Faulty variant: the status-code filter left out
should_include_entry_ignores_status(entry, filter_category, custom_domains, resource_types, status_codes) ==
    LET url == Lower(Get(Get(entry, "request", EmptyDict), "url", <<>>))
        resource_type == Get(entry, "_resourceType", <<>>)
        status_code == Get(Get(entry, "response", EmptyDict), "status", 0)
    IN  IF Truthy(resource_types) /\ ~InList(resource_type, resource_types[1]) THEN FALSE
        ELSE IF Truthy(custom_domains)
                /\ ~(\E i \in 1..Len(custom_domains[1]) :
                        Contains(url, Lower(custom_domains[1][i]))) THEN FALSE
        ELSE IF Truthy(filter_category)
             THEN matches_category(entry, filter_category[1], url, resource_type, status_code)
        ELSE TRUE

should_include_entry(entry, filter_category, custom_domains, resource_types, status_codes) ==
    LET url == Lower(Get(Get(entry, "request", EmptyDict), "url", <<>>))
        resource_type == Get(entry, "_resourceType", <<>>)
        status_code == Get(Get(entry, "response", EmptyDict), "status", 0)
    IN  IF Truthy(status_codes) /\ ~InList(status_code, status_codes[1]) THEN FALSE
        ELSE IF Truthy(resource_types) /\ ~InList(resource_type, resource_types[1]) THEN FALSE
        ELSE IF Truthy(custom_domains)
                /\ ~(\E i \in 1..Len(custom_domains[1]) :
                        Contains(url, Lower(custom_domains[1][i]))) THEN FALSE
        ELSE IF Truthy(filter_category)
             THEN matches_category(entry, filter_category[1], url, resource_type, status_code)
        ELSE TRUE

\* the four filter arguments of a call, as one record
Criteria(cat, domains, types, codes) ==
    [filter_category |-> cat, custom_domains |-> domains,
     resource_types |-> types, status_codes |-> codes]

\* any([filter_category, custom_domains, resource_types, status_codes])
AnyCriteria(c) ==
    Truthy(c.filter_category) \/ Truthy(c.custom_domains)
        \/ Truthy(c.resource_types) \/ Truthy(c.status_codes)

\* Faulty variant: the loop passes over the first entry it would append
FilterEntries_skips_first(entries, c) ==
    LET kept == SelectSeq(entries, LAMBDA id :
                    should_include_entry(EntryPool[id], c.filter_category, c.custom_domains,
                                         c.resource_types, c.status_codes))
    IN  IF kept = <<>> THEN kept ELSE Tail(kept)

\* the loop over full_har["log"]["entries"] that builds filtered_entries
FilterEntries(entries, c) ==
    SelectSeq(entries, LAMBDA id :
        should_include_entry(EntryPool[id], c.filter_category, c.custom_domains,
                             c.resource_types, c.status_codes))

---------------------------------------------------------------------------
(* The transport normalizer: sauce_api_call of both agents.                *)

\* what client.request can end in, once the request is on the wire
StatusPool == {200, 201, 204, 301, 400, 401, 403, 404, 429, 500, 502, 503}
Outcomes ==
    [kind : {"status"}, status : StatusPool]
        \cup {[kind |-> "request_error", status |-> 0],    \* httpx.RequestError
              [kind |-> "exception", status |-> 0]}        \* any other Exception

Response(status) == [type |-> "Response", status_code |-> status, error |-> "none"]
ErrorDict(what)  == [type |-> "dict", status_code |-> 0, error |-> what]

\* response.raise_for_status() raises httpx.HTTPStatusError unless the status is 2xx
raise_for_status(status) == ~(200 <= status /\ status <= 299)

\* Faulty variant: 500 no longer passed through
PassThrough_404_only == {404}

\* the codes the HTTPStatusError handler returns as a response
PassThrough == {404, 500}

\* the try/except of sauce_api_call, given how client.request ended
sauce_api_call(outcome) ==
    IF outcome.kind = "status"
    THEN IF ~raise_for_status(outcome.status) THEN Response(outcome.status)
         ELSE IF outcome.status \in PassThrough THEN Response(outcome.status)
         ELSE ErrorDict("http")
    ELSE IF outcome.kind = "request_error" THEN ErrorDict("network")
    ELSE ErrorDict("unexpected")

\* the same try/except in SauceLabsRDCAgent
rdc_sauce_api_call(outcome) ==
    IF outcome.kind = "status"
    THEN IF ~raise_for_status(outcome.status) THEN Response(outcome.status)
         ELSE IF outcome.status \in {404, 500} THEN Response(outcome.status)
         ELSE ErrorDict("http")
    ELSE IF outcome.kind = "request_error" THEN ErrorDict("network")
    ELSE ErrorDict("unexpected")

\* Faulty variant: a value the caller put under the key is kept
DictSet_keeps_existing(d, key, value) ==
    [k \in DOMAIN d \cup {key} |-> IF k \in DOMAIN d THEN d[k] ELSE value]

\* d[key] = value on a dict
DictSet(d, key, value) ==
    [k \in DOMAIN d \cup {key} |-> IF k = key THEN value ELSE d[k]]

\* the client marker each agent stamps on its requests
Marker(agent) == IF agent = "main" THEN "mcp" ELSE "rdc_mcp"

\* all_params = params or {}; all_params['ai'] = <marker>
all_params(agent, params) ==
    LET base == IF params # None /\ DOMAIN params[1] # {} THEN params[1] ELSE EmptyDict
    IN  DictSet(base, "ai", Marker(agent))

Agents == {"main", "rdc"}

\* Faulty variant: the request is issued again after the first attempt
client_request_repeated(request) == <<request, request>>

\* await self.client.request(...): the requests one invocation puts on the wire
client_request(request) == <<request>>

\* caller-supplied query parameters: none, an empty dict, and dicts with and
\* without a value of their own under the marker's key
ParamsPool ==
    {None, Some(EmptyDict), Some([limit |-> "5"]), Some([ai |-> "user"]),
     Some([ai |-> "user", limit |-> "0"])}

\* files= of the main agent (upload_file_to_storage): a path that open() can
\* read and one it cannot
FilesPool == {None, Some("app.apk"), Some("missing.apk")}
Readable(path) == path = "app.apk"

NoCall == [agent |-> "none", params |-> None, files |-> None,
           outcome |-> [kind |-> "none", status |-> 0]]
NoReturn == [type |-> "none", status_code |-> 0, error |-> "none"]

ApiInit ==
    /\ api_pc = "idle"
    /\ api_call = NoCall
    /\ api_sent = <<>>
    /\ api_ret = NoReturn

\* sauce_api_call up to its await of client.request; open() failing on a file
\* is an exception raised inside the try, before anything is sent
ApiInvoke(agent, params, files) ==
    /\ api_pc = "idle"
    /\ agent = "rdc" => files = None
    /\ api_call' = [agent |-> agent, params |-> params, files |-> files,
                    outcome |-> [kind |-> "none", status |-> 0]]
    /\ IF files # None /\ ~Readable(files[1])
       THEN /\ api_sent' = <<>>
            /\ api_ret' = sauce_api_call([kind |-> "exception", status |-> 0])
            /\ api_pc' = "returned"
       ELSE /\ api_sent' = api_sent \o client_request(all_params(agent, params))
            /\ api_ret' = NoReturn
            /\ api_pc' = "awaiting"
    /\ UNCHANGED <<har_vars, filter_vars, main_vars, tool_vars>>

\* client.request ends; raise_for_status and the except clauses decide the result
ApiRespond(outcome) ==
    /\ api_pc = "awaiting"
    /\ api_call' = [api_call EXCEPT !.outcome = outcome]
    /\ api_ret' = IF api_call.agent = "main" THEN sauce_api_call(outcome)
                   ELSE rdc_sauce_api_call(outcome)
    /\ api_pc' = "returned"
    /\ UNCHANGED <<api_sent, har_vars, filter_vars, main_vars, tool_vars>>

---------------------------------------------------------------------------
(* The HAR tools: get_test_assets, get_asset_url, filter_har_data and      *)
(* get_network_har_file.                                                   *)

Jobs  == {"j1", "j2"}
\* The tool invocations of a behaviour.  The MCP host may start the second
\* while the first is suspended at an await, or after it has returned.
Tasks == {1, 2}

\* how client.request ends for the HAR tools: one status of each class that
\* sauce_api_call and get_test_assets tell apart, and a network failure
HarOutcomes ==
    [kind : {"status"}, status : {200, 401, 404, 500}]
        \cup {[kind |-> "request_error", status |-> 0]}

\* documents: the JSON of a 200 HAR asset, sauce_api_call's error dict, and
\* the JSON body of a passed-through 404/500 (no "log" key)
HarDoc(entries) == [kind |-> "har", entries |-> entries]
ErrorDoc        == [kind |-> "error_dict", entries |-> <<>>]
BodyDoc         == [kind |-> "body", entries |-> <<>>]
NotCached       == [kind |-> "absent", entries |-> <<>>]

\* Faulty variant: the lookup never hits
IsCached_never(cache, job) == FALSE

\* job_id in self._har_cache
IsCached(cache, job) == cache[job] # NotCached

\* self._har_cache[job_id] = doc
CacheStore(cache, job, doc) == [cache EXCEPT ![job] = doc]

\* full_har = self._har_cache[job_id] is the object the cache holds, not a copy:
\* what the call leaves full_har as is what the cache holds afterwards
SeenThroughCache(cache, job, full_har) == [cache EXCEPT ![job] = full_har]

\* asset manifests the vendor may answer with: asset key -> value
StrValue(name) == [type |-> "str", v |-> name]
ManifestPool ==
    { [k \in {"network.har", "sauce-log"} |->
          StrValue(IF k = "sauce-log" THEN "log.json" ELSE k)],
      [k \in {"sauce-log"} |-> StrValue("log.json")],
      [k \in {"network.har"} |-> [type |-> "list", v |-> "network.har"]] }

\* a dict whose values do not matter, by its keys
Dict(keys) == [k \in keys |-> "..."]

\* Faulty variant: the failure is reported under another key
ErrorValue_as_message(response) == [message |-> response.error]

\* the dict sauce_api_call returns instead of a response
ErrorValue(response) == [error |-> response.error]

\* the key a tool reports the offending identifier under
IdentifierKey(tool) ==
    CASE tool = "get_team"             -> "team_id"
      [] tool = "get_user"             -> "user_id"
      [] tool = "get_service_account"  -> "service_account_id"
      [] tool = "get_build"            -> "build_id"
      [] tool = "lookup_jobs_in_build" -> "build_id"
      [] tool \in {"get_tunnel_information", "get_current_jobs_for_tunnel"} -> "tunnel_id"
      [] OTHER                         -> "job_id"

\* Faulty variant: the diagnostic carries no suggestions
Diagnostic_without_suggestions(tool) ==
    Dict({"error", IdentifierKey(tool), "possible_reasons"})

\* the structured diagnostic a tool returns for a 404
Diagnostic(tool) ==
    Dict({"error", IdentifierKey(tool), "possible_reasons", "suggestions"}
             \cup (IF tool \in {"get_build", "get_build_for_job", "lookup_jobs_in_build"}
                   THEN {"build_source"} ELSE {})
             \cup (IF tool \in {"get_tunnel_information", "get_current_jobs_for_tunnel"}
                   THEN {"username"} ELSE {}))

\* {"error": "API request failed with status ...", <id>: ..., "status_code": ...}
StatusError(tool) ==
    Dict({"error", IdentifierKey(tool), "status_code"}
             \cup (IF tool = "lookup_jobs_in_build" THEN {"build_source"} ELSE {}))

\* get_test_assets after its sauce_api_call returned `response`: the manifest,
\* a dict with an error key, or the response object itself
get_test_assets(response, manifest) ==
    IF response.type = "Response"
    THEN IF response.status_code = 200 THEN [type |-> "json", v |-> manifest]
         ELSE IF response.status_code = 401 THEN [type |-> "error", v |-> Dict({"error"})]
         ELSE IF response.status_code = 404
         THEN [type |-> "error", v |-> Diagnostic("get_test_assets")]
         ELSE [type |-> "Response", v |-> EmptyDict]
    ELSE [type |-> "error", v |-> ErrorValue(response)]

\* Faulty variant: a missing key falls back to a URL made from the key itself
get_asset_url_falls_back(asset_list, asset_key) ==
    IF asset_list.type = "error"
    THEN [raised |-> "ValueError: cannot get asset URL", url |-> "", message |-> None]
    ELSE IF asset_list.type = "Response"
    THEN [raised |-> "AttributeError", url |-> "", message |-> None]
    ELSE IF asset_key \notin DOMAIN asset_list.v
         THEN [raised |-> "no", url |-> asset_key, message |-> None]
    ELSE IF asset_list.v[asset_key].type = "str"
         THEN [raised |-> "no", url |-> asset_list.v[asset_key].v, message |-> None]
    ELSE [raised |-> "ValueError: asset must be string", url |-> "", message |-> None]

\* get_asset_url after get_test_assets returned `asset_list`: the asset path,
\* or the exception raised
get_asset_url(asset_list, asset_key) ==
    IF asset_list.type = "error"
    THEN [raised |-> "ValueError: cannot get asset URL", url |-> "", message |-> None]
    ELSE IF asset_list.type = "Response"
    THEN [raised |-> "AttributeError", url |-> "", message |-> None]
    ELSE IF asset_key \notin DOMAIN asset_list.v
         THEN [raised |-> "ValueError: asset not found", url |-> "",
               message |-> Some([asset_key |-> asset_key,
                                 available |-> DOMAIN asset_list.v])]
    ELSE IF asset_list.v[asset_key].type = "str"
         THEN [raised |-> "no", url |-> asset_list.v[asset_key].v, message |-> None]
    ELSE [raised |-> "ValueError: asset must be string", url |-> "", message |-> None]

\* Faulty variant: every tool asks for the HAR asset
AssetKey_always_har(op) == "network.har"

\* the asset each tool asks get_asset_url for
AssetKey(op) == IF op = "get_log_json_file" THEN "sauce-log" ELSE "network.har"

\* requests on the wire
ManifestRequest(job)   == [endpoint |-> "assets", job |-> job, asset |-> ""]
AssetRequest(job, url) == [endpoint |-> "asset", job |-> job, asset |-> url]

NoMeta == <<>>
NoValue == [kind |-> "none", entries |-> <<>>, meta |-> NoMeta]
RaisedResult(what) == [kind |-> what, entries |-> <<>>, meta |-> NoMeta]
\* an exception together with what its message tells
RaisedWith(what, message) ==
    [kind |-> what, entries |-> <<>>, meta |-> NoMeta, message |-> message]
\* what get_log_json_file returns: the parsed log or a dict with an error key
LogResult(kind) == [kind |-> kind, entries |-> <<>>, meta |-> NoMeta]

\* filtered_har = full_har.copy(); filtered_har["log"]["entries"] = filtered_entries
\* dict.copy() is shallow: filtered_har["log"] and full_har["log"] are one dict
\* object, so the assignment is seen through both.
CopyAndSetEntries(full_har, filtered_entries) ==
    [full_har |-> HarDoc(filtered_entries), filtered_har |-> HarDoc(filtered_entries)]

\* the rest of filter_har_data / get_network_har_file once full_har is at hand:
\* the value returned and full_har as the call leaves it
\* (cache_hit is the metadata's "cache_hit" entry: Some(TRUE) in filter_har_data,
\* None in get_network_har_file, whose metadata has no such key)
FilterAndReturn(full_har, c, cache_hit) ==
    IF ~AnyCriteria(c)
    THEN [ret |-> [kind |-> full_har.kind, entries |-> full_har.entries, meta |-> NoMeta],
          full_har |-> full_har]
    ELSE LET filtered_entries == FilterEntries(full_har.entries, c)
         IN  IF full_har.kind # "har"
             THEN [ret |-> RaisedResult("KeyError"), full_har |-> full_har]
             ELSE LET after == CopyAndSetEntries(full_har, filtered_entries)
                      original_count == Len(after.full_har.entries)
                  IN  [ret |-> [kind |-> "har",
                                entries |-> after.filtered_har.entries,
                                meta |-> Some([original_request_count |-> original_count,
                                               filtered_request_count |-> Len(filtered_entries),
                                               filter_category |-> c.filter_category,
                                               custom_domains |-> c.custom_domains,
                                               resource_types |-> c.resource_types,
                                               status_codes |-> c.status_codes,
                                               cache_hit |-> cache_hit])],
                       full_har |-> after.full_har]

\* response.json() of the asset response, or sauce_api_call's dict as it is
AssetDocument(response, job, body_is_json) ==
    IF response.type = "Response"
    THEN IF response.status_code = 200 THEN HarDoc(remote_har[job])
         ELSE IF body_is_json THEN BodyDoc
         ELSE [kind |-> "JSONDecodeError", entries |-> <<>>]
    ELSE ErrorDoc

\* the filter arguments the tools are called with in Spec
NoCriteria == Criteria(None, None, None, None)
CacheCriteria ==
    { NoCriteria,
      Criteria(Some(cat_errors), None, None, None),
      Criteria(Some(cat_slow), None, None, None),
      Criteria(None, None, None, Some(<<200>>)) }

HarDocs == SeqsUpTo(CacheEntryIds, MaxEntries)

\* the document of the second job is a fixed one
OtherJobHar == <<3, 1>>

\* asset_list of a call that has not got its manifest request answered
NoAssetList == [type |-> "none", v |-> EmptyDict]

NoInvocation ==
    [op |-> "none", job |-> "j1", criteria |-> NoCriteria, after_fetch |-> FALSE,
     asset_list |-> NoAssetList]

\* what the step just taken handed back to the MCP host: the invocation, the
\* requests it had issued, and the value it returned or the exception it raised
Returned(inv, requests, ret) == [call |-> inv, sent |-> requests, ret |-> ret]
NoResult == Returned(NoInvocation, <<>>, NoValue)

HarInit ==
    /\ \E doc \in HarDocs : remote_har = [j \in Jobs |-> IF j = "j1" THEN doc ELSE OtherJobHar]
    /\ har_cache = [j \in Jobs |-> NotCached]
    /\ pc = [t \in Tasks |-> "ready"]
    /\ call = [t \in Tasks |-> NoInvocation]
    /\ sent = [t \in Tasks |-> <<>>]
    /\ result = NoResult
    /\ har_fetched = [j \in Jobs |-> FALSE]

\* invocation t has not started, and the invocations before it have
CanStart(t) == pc[t] = "ready" /\ \A u \in Tasks : u < t => pc[u] # "ready"

Invocation(op, job, c) ==
    [op |-> op, job |-> job, criteria |-> c, after_fetch |-> har_fetched[job],
     asset_list |-> NoAssetList]

\* filter_har_data from its entry to its first await, or to its return when
\* the job is in the cache (no await is reached then)
filter_har_data(t, job, c) ==
    /\ CanStart(t)
    /\ IF IsCached(har_cache, job)
       THEN LET done == FilterAndReturn(har_cache[job], c, Some(TRUE))
            IN  /\ har_cache' = SeenThroughCache(har_cache, job, done.full_har)
                /\ result' = Returned(Invocation("filter_har_data", job, c), <<>>, done.ret)
                /\ pc' = [pc EXCEPT ![t] = "done"]
                /\ UNCHANGED <<call, sent>>
       ELSE /\ call' = [call EXCEPT ![t] = Invocation("filter_har_data", job, c)]
            /\ sent' = [sent EXCEPT ![t] = <<ManifestRequest(job)>>]
            /\ result' = NoResult
            /\ pc' = [pc EXCEPT ![t] = "get_asset_url"]
            /\ har_cache' = har_cache
    /\ UNCHANGED <<remote_har, har_fetched, filter_vars, api_vars, main_vars, tool_vars>>

\* get_network_har_file from its entry to its first await
get_network_har_file(t, job, c) ==
    /\ CanStart(t)
    /\ call' = [call EXCEPT ![t] = Invocation("get_network_har_file", job, c)]
    /\ sent' = [sent EXCEPT ![t] = <<ManifestRequest(job)>>]
    /\ result' = NoResult
    /\ pc' = [pc EXCEPT ![t] = "get_asset_url"]
    /\ UNCHANGED <<remote_har, har_cache, har_fetched, filter_vars, api_vars, main_vars, tool_vars>>

\* get_log_json_file from its entry to its first await
get_log_json_file(t, job) ==
    /\ CanStart(t)
    /\ call' = [call EXCEPT ![t] = Invocation("get_log_json_file", job, NoCriteria)]
    /\ sent' = [sent EXCEPT ![t] = <<ManifestRequest(job)>>]
    /\ result' = NoResult
    /\ pc' = [pc EXCEPT ![t] = "get_asset_url"]
    /\ UNCHANGED <<remote_har, har_cache, har_fetched, filter_vars, api_vars, main_vars, tool_vars>>

\* the rest of get_log_json_file once the asset request has ended
log_json_result(response) ==
    IF response.type = "Response"
    THEN IF response.status_code = 200 THEN LogResult("log")
         ELSE LogResult("error: failed to get logs")
    ELSE LogResult("error: invalid response type")

\* the manifest request ends: get_test_assets and get_asset_url run, and the
\* tool either raises or sends the asset request
ManifestResponse(t, outcome, manifest) ==
    /\ pc[t] = "get_asset_url"
    /\ LET asset_list == get_test_assets(sauce_api_call(outcome), manifest)
           asset_url == get_asset_url(asset_list, AssetKey(call[t].op))
       IN  IF asset_url.raised # "no"
           THEN /\ result' = Returned([call[t] EXCEPT !.asset_list = asset_list], sent[t],
                                      RaisedWith(asset_url.raised, asset_url.message))
                /\ pc' = [pc EXCEPT ![t] = "done"]
                /\ call' = [call EXCEPT ![t] = NoInvocation]
                /\ sent' = [sent EXCEPT ![t] = <<>>]
           ELSE /\ sent' = [sent EXCEPT
                                ![t] = Append(@, AssetRequest(call[t].job, asset_url.url))]
                /\ pc' = [pc EXCEPT ![t] = "sauce_api_call"]
                /\ result' = NoResult
                /\ call' = [call EXCEPT ![t].asset_list = asset_list]
    /\ UNCHANGED <<remote_har, har_cache, har_fetched, filter_vars, api_vars, main_vars, tool_vars>>

\* the asset request ends: the document is taken from the response,
\* filter_har_data stores it in the cache, and the tool filters and returns
AssetResponse(t, outcome, body_is_json) ==
    /\ pc[t] = "sauce_api_call"
    /\ LET job == call[t].job
           response == sauce_api_call(outcome)
           doc == AssetDocument(response, job, body_is_json)
           caching == call[t].op = "filter_har_data"
           stored == IF caching THEN CacheStore(har_cache, job, doc) ELSE har_cache
           full_har == IF caching THEN stored[job] ELSE doc
           done == FilterAndReturn(full_har, call[t].criteria,
                                   IF caching THEN Some(TRUE) ELSE None)
       IN  IF call[t].op = "get_log_json_file"
           THEN /\ result' = Returned(call[t], sent[t], log_json_result(response))
                /\ UNCHANGED <<har_cache, har_fetched>>
           ELSE IF doc.kind = "JSONDecodeError"
           THEN /\ result' = Returned(call[t], sent[t], RaisedResult("JSONDecodeError"))
                /\ UNCHANGED <<har_cache, har_fetched>>
           ELSE /\ result' = Returned(call[t], sent[t], done.ret)
                /\ har_cache' = IF caching
                                THEN SeenThroughCache(stored, job, done.full_har)
                                ELSE har_cache
                /\ har_fetched' = IF caching /\ doc.kind = "har"
                                  THEN [har_fetched EXCEPT ![job] = TRUE]
                                  ELSE har_fetched
    /\ pc' = [pc EXCEPT ![t] = "done"]
    /\ call' = [call EXCEPT ![t] = NoInvocation]
    /\ sent' = [sent EXCEPT ![t] = <<>>]
    /\ UNCHANGED <<remote_har, filter_vars, api_vars, main_vars, tool_vars>>

---------------------------------------------------------------------------
(* The entry filter on one document: the inputs are drawn in FilterInit.   *)

CategoryPool ==
    {None, Some(<<>>), Some(cat_analytics), Some(cat_social), Some(cat_api),
     Some(cat_fonts), Some(cat_images), Some(cat_scripts), Some(cat_errors),
     Some(cat_slow), Some(cat_third_party), Some(cat_video)}
DomainsPool == {None, Some(<<>>), Some(<<pat_IO>>), Some(<<pat_cdn, pat_gtag>>)}
TypesPool   == {None, Some(<<>>), Some(<<str_XHR>>)}
CodesPool   == {None, Some(<<>>), Some(<<0, 404>>), Some(<<200, 500>>)}

FilterCriteria ==
    [filter_category : CategoryPool, custom_domains : DomainsPool,
     resource_types : TypesPool, status_codes : CodesPool]

FilterInit ==
    /\ f_entries \in SeqsUpTo(EntryIds, MaxEntries)
    /\ f_criteria \in FilterCriteria
    /\ f_out = <<>>

\* the filter loop over the document's entries
ApplyFilter ==
    /\ Len(f_out) = 0
    /\ f_out' = <<FilterEntries(f_entries, f_criteria)>>
    /\ UNCHANGED <<f_entries, f_criteria, har_vars, api_vars, main_vars, tool_vars>>

\* the filter loop over the entries a filtered result holds
ReapplyFilter ==
    /\ Len(f_out) = 1
    /\ f_out' = Append(f_out, FilterEntries(f_out[1], f_criteria))
    /\ UNCHANGED <<f_entries, f_criteria, har_vars, api_vars, main_vars, tool_vars>>

---------------------------------------------------------------------------
(* Process start: check_stdio_is_not_tty, main and the agent constructor.  *)
(* main() and __init__ read the same in sauce_api_mcp.main and in          *)
(* sauce_mcp.rdc_openapi.                                                  *)

UpperChar(c) ==
    IF \E i \in 1..26 : LowerChars[i] = c
    THEN UpperChars[CHOOSE i \in 1..26 : LowerChars[i] = c]
    ELSE c

\* s.upper()
Upper(s) == [i \in 1..Len(s) |-> UpperChar(s[i])]

str_OTHER == <<"O", "T", "H", "E", "R">>
str_US_WEST == <<"U", "S", "_", "W", "E", "S", "T">>
str_US_EAST == <<"U", "S", "_", "E", "A", "S", "T">>
str_EU_CENTRAL == <<"E", "U", "_", "C", "E", "N", "T", "R", "A", "L">>
str_other == <<"o", "t", "h", "e", "r">>
str_us_west == <<"u", "s", "_", "w", "e", "s", "t">>
str_Other == <<"O", "t", "h", "e", "r">>

url_us_west_1 ==
    <<"h", "t", "t", "p", "s", ":", "/", "/", "a", "p", "i", ".", "u", "s", "-", "w", "e", "s", "t", "-", "1", ".", "s", "a", "u", "c", "e", "l", "a", "b", "s", ".", "c", "o", "m", "/">>
url_us_east_4 ==
    <<"h", "t", "t", "p", "s", ":", "/", "/", "a", "p", "i", ".", "u", "s", "-", "e", "a", "s", "t", "-", "4", ".", "s", "a", "u", "c", "e", "l", "a", "b", "s", ".", "c", "o", "m", "/">>
url_eu_central_1 ==
    <<"h", "t", "t", "p", "s", ":", "/", "/", "a", "p", "i", ".", "e", "u", "-", "c", "e", "n", "t", "r", "a", "l", "-", "1", ".", "s", "a", "u", "c", "e", "l", "a", "b", "s", ".", "c", "o", "m", "/">>

\* DATA_CENTERS: region name -> base URL
DATA_CENTERS ==
    [r \in {str_US_WEST, str_US_EAST, str_EU_CENTRAL} |->
        IF r = str_US_WEST THEN url_us_west_1
        ELSE IF r = str_US_EAST THEN url_us_east_4
        ELSE url_eu_central_1]

Streams == {"stdin", "stdout", "stderr"}
EnvNames == {"SAUCE_ACCESS_KEY", "SAUCE_USERNAME", "SAUCE_REGION", "ALTERNATE_URL"}

\* the environments a server is started in: each variable unset, set to the
\* empty string, or set to a value
CredentialPool == {None, Some(<<>>), Some(<<"k">>)}
RegionPool ==
    {None, Some(<<>>), Some(str_US_WEST), Some(str_EU_CENTRAL), Some(str_OTHER),
     Some(str_other), Some(str_Other), Some(str_us_west)}
AlternatePool == {None, Some(<<>>), Some(<<"h", "t", "t", "p", ":", "/", "/", "x">>)}

\* os.getenv(name)
getenv(name) == environ[name]

\* Faulty variant: stderr is not looked at
check_stdio_ignores_stderr == ~(isatty["stdin"] \/ isatty["stdout"])

\* check_stdio_is_not_tty(): True if it is safe to run
check_stdio_is_not_tty == ~(isatty["stdin"] \/ isatty["stdout"] \/ isatty["stderr"])

\* SAUCE_REGION as main() passes it on: "US_WEST" when the variable is unset
SAUCE_REGION ==
    IF getenv("SAUCE_REGION") = None THEN str_US_WEST ELSE getenv("SAUCE_REGION")[1]

\* Faulty variant: region OTHER without a URL falls back to the US_WEST centre
agent_init_falls_back(region) ==
    IF Upper(region) = str_OTHER
    THEN [raised |-> "no", getenv |-> {"ALTERNATE_URL"},
          base_url |-> IF Truthy(getenv("ALTERNATE_URL")) THEN getenv("ALTERNATE_URL")
                       ELSE Some(DATA_CENTERS[str_US_WEST])]
    ELSE IF region \in DOMAIN DATA_CENTERS
    THEN [raised |-> "no", getenv |-> {}, base_url |-> Some(DATA_CENTERS[region])]
    ELSE [raised |-> "KeyError", getenv |-> {}, base_url |-> None]

\* __init__ of the agent up to self.client = httpx.AsyncClient(...): the base
\* URL it resolves, the variables it asks os.getenv for, and what it raises
agent_init(region) ==
    IF Upper(region) = str_OTHER
    THEN IF ~Truthy(getenv("ALTERNATE_URL"))
         THEN [raised |-> "ValueError", getenv |-> {"ALTERNATE_URL"}, base_url |-> None]
         ELSE [raised |-> "no", getenv |-> {"ALTERNATE_URL"},
               base_url |-> getenv("ALTERNATE_URL")]
    ELSE IF region \in DOMAIN DATA_CENTERS
    THEN [raised |-> "no", getenv |-> {}, base_url |-> Some(DATA_CENTERS[region])]
    ELSE [raised |-> "KeyError", getenv |-> {}, base_url |-> None]

MainInit ==
    /\ program \in Agents
    /\ environ \in [EnvNames -> CredentialPool \cup RegionPool \cup AlternatePool]
    /\ environ["SAUCE_ACCESS_KEY"] \in CredentialPool
    /\ environ["SAUCE_USERNAME"] \in CredentialPool
    /\ environ["SAUCE_REGION"] \in RegionPool
    /\ environ["ALTERNATE_URL"] \in AlternatePool
    /\ isatty \in [Streams -> BOOLEAN]
    /\ main_pc = "check_stdio"
    /\ getenv_log = {}
    /\ client = None
    /\ exit_status = None

\* an exception nothing catches ends the interpreter with status 1
MainRaise(what) ==
    /\ main_pc' = what
    /\ exit_status' = Some(1)

\* if not check_stdio_is_not_tty(): sys.exit(1)
MainCheckStdio ==
    /\ main_pc = "check_stdio"
    /\ IF ~check_stdio_is_not_tty
       THEN main_pc' = "sys.exit" /\ exit_status' = Some(1)
       ELSE main_pc' = "SAUCE_ACCESS_KEY" /\ exit_status' = exit_status
    /\ UNCHANGED <<program, environ, isatty, getenv_log, client>>
    /\ UNCHANGED <<har_vars, filter_vars, api_vars, tool_vars>>

\* SAUCE_ACCESS_KEY = os.getenv(...), then SAUCE_USERNAME: None raises ValueError
MainGetCredential(name, next) ==
    /\ main_pc = name
    /\ getenv_log' = getenv_log \cup {name}
    /\ IF getenv(name) = None
       THEN MainRaise("ValueError")
       ELSE main_pc' = next /\ exit_status' = exit_status
    /\ UNCHANGED <<program, environ, isatty, client>>
    /\ UNCHANGED <<har_vars, filter_vars, api_vars, tool_vars>>

\* SAUCE_REGION = os.getenv("SAUCE_REGION"), defaulted to "US_WEST"
MainGetRegion ==
    /\ main_pc = "SAUCE_REGION"
    /\ getenv_log' = getenv_log \cup {"SAUCE_REGION"}
    /\ main_pc' = "agent"
    /\ UNCHANGED <<program, environ, isatty, client, exit_status>>
    /\ UNCHANGED <<har_vars, filter_vars, api_vars, tool_vars>>

\* sauce_agent = SauceLabsAgent(...) / SauceLabsRDCAgent(...)
MainConstructAgent ==
    /\ main_pc = "agent"
    /\ LET made == agent_init(SAUCE_REGION)
       IN  /\ getenv_log' = getenv_log \cup made.getenv
           /\ IF made.raised # "no"
              THEN MainRaise(made.raised) /\ client' = client
              ELSE /\ client' = made.base_url
                   /\ main_pc' = "run"
                   /\ exit_status' = exit_status
    /\ UNCHANGED <<program, environ, isatty>>
    /\ UNCHANGED <<har_vars, filter_vars, api_vars, tool_vars>>

\* mcp_server_instance.run(transport="stdio")
MainRun ==
    /\ main_pc = "run"
    /\ main_pc' = "serving"
    /\ UNCHANGED <<program, environ, isatty, getenv_log, client, exit_status>>
    /\ UNCHANGED <<har_vars, filter_vars, api_vars, tool_vars>>

\* run() returns when the host closes the streams, and main() ends
MainServerEnds ==
    /\ main_pc = "serving"
    /\ main_pc' = "returned"
    /\ exit_status' = Some(0)
    /\ UNCHANGED <<program, environ, isatty, getenv_log, client>>
    /\ UNCHANGED <<har_vars, filter_vars, api_vars, tool_vars>>

MainIdle ==
    /\ program = "main"
    /\ environ = [n \in EnvNames |-> None]
    /\ isatty = [s \in Streams |-> FALSE]
    /\ main_pc = "not started"
    /\ getenv_log = {}
    /\ client = None
    /\ exit_status = None

---------------------------------------------------------------------------
(* One invocation of an endpoint tool: the arguments become query          *)
(* parameters, sauce_api_call runs once, and the tool shapes what it got.  *)

\* Python values of the argument types the tools declare
PyStr(s)  == [t |-> "str", v |-> s]
PyInt(n)  == [t |-> "int", v |-> n]
PyBool(b) == [t |-> "bool", v |-> b]
PyList(l) == [t |-> "list", v |-> l]
PyDict(keys) == [t |-> "dict", v |-> keys]

\* bool(x) of an Optional argument: None, "", 0, False and [] are falsy
PyTruthy(arg) ==
    /\ arg # None
    /\ CASE arg[1].t = "str"  -> arg[1].v # ""
         [] arg[1].t = "int"  -> arg[1].v # 0
         [] arg[1].t = "bool" -> arg[1].v
         [] arg[1].t = "list" -> arg[1].v # <<>>

\* a value of each type that is falsy, and one that is truthy
ValueOf(type, truthy) ==
    CASE type = "str"  -> IF truthy THEN PyStr("x") ELSE PyStr("")
      [] type = "int"  -> IF truthy THEN PyInt(20) ELSE PyInt(0)
      [] type = "bool" -> PyBool(truthy)
      [] type = "list" -> IF truthy THEN PyList(<<"failed">>) ELSE PyList(<<>>)

\* an optional argument: its name, its declared type, and the test the tool
\* makes before it puts the argument into params ("if x:", "if x is not None:",
\* "unused" when the tool never looks at it, "json" when it goes into the
\* request body instead)
Arg(name, type, test) == [name |-> name, type |-> type, test |-> test]

StrArgs(names, test)  == {Arg(n, "str", test) : n \in names}
IntArgs(names, test)  == {Arg(n, "int", test) : n \in names}
BoolArgs(names, test) == {Arg(n, "bool", test) : n \in names}

OptionalArgs(tool) ==
    CASE tool = "lookup_teams" -> StrArgs({"id", "name"}, "if x")
      [] tool = "lookup_users" ->
            StrArgs({"id", "username", "teams", "roles", "phrase", "status"}, "if x")
                \cup IntArgs({"limit", "offset"}, "if x")
      [] tool = "lookup_service_accounts" ->
            StrArgs({"id", "username", "teams"}, "if x")
                \cup IntArgs({"limit", "offset"}, "if x")
      [] tool = "lookup_builds" ->
            StrArgs({"user_id", "org_id", "group_id", "team_id", "start", "end",
                     "name", "sort"}, "if x")
                \cup IntArgs({"limit", "offset"}, "if x")
                \cup {Arg("status", "list", "if x")}
      [] tool = "lookup_jobs_in_build" ->
            StrArgs({"modified_since"}, "if x")
                \cup BoolArgs({"completed", "errored", "failed", "finished", "new",
                               "passed", "public", "queued", "running", "faulty"},
                              "is not None")
      [] tool = "get_real_device_jobs" -> StrArgs({"type"}, "unused")
      [] tool = "launch_app" ->
            StrArgs({"packageName", "activityName", "bundleId"}, "json")
      [] tool = "list_device_status" ->
            StrArgs({"state", "deviceName"}, "is not None")
                \cup BoolArgs({"privateOnly"}, "str().lower()")
      [] tool = "list_device_sessions" -> StrArgs({"state", "deviceName"}, "is not None")
      [] tool = "allocate_device_and_create_session" ->
            StrArgs({"deviceName", "os"}, "json")
      [] tool = "install_app_from_storage" -> {Arg("features", "dict", "json")}
      [] tool = "open_url_or_deeplink" -> StrArgs({"url"}, "json")
      [] tool = "execute_shell_command" -> StrArgs({"adbShellCommand"}, "json")
      [] OTHER -> {}

\* the arguments without a default: the caller always supplies them
RequiredArgs(tool) ==
    CASE tool = "open_url_or_deeplink"  -> {"url"}
      [] tool = "execute_shell_command" -> {"adbShellCommand"}
      [] OTHER -> {}

\* operating systems a caller names, character by character
os_android == <<"a", "n", "d", "r", "o", "i", "d">>
os_iOS     == <<"i", "O", "S">>
os_ios     == <<"i", "o", "s">>
os_windows == <<"w", "i", "n", "d", "o", "w", "s">>
device_pixel == <<"P", "i", "x", "e", "l">>

ArgNames(tool) == {a.name : a \in OptionalArgs(tool)}
ArgNamed(tool, name) == CHOOSE a \in OptionalArgs(tool) : a.name = name

\* the values a supplied argument takes, listed: for most a falsy and a
\* truthy value of its type, for the validated ones values that pass and
\* values that do not
ArgValues(tool, name) ==
    CASE tool = "list_device_status" /\ name = "state" ->
            <<PyStr("AVAILABLE"), PyStr("available"), PyStr("")>>
      [] tool = "list_device_sessions" /\ name = "state" ->
            <<PyStr("ACTIVE"), PyStr("AVAILABLE"), PyStr("")>>
      [] tool = "allocate_device_and_create_session" /\ name = "os" ->
            <<PyStr(os_android), PyStr(os_iOS), PyStr(os_windows)>>
      [] tool = "allocate_device_and_create_session" /\ name = "deviceName" ->
            <<PyStr(device_pixel)>>
      [] tool = "install_app_from_storage" /\ name = "features" ->
            <<PyDict({}), PyDict({"networkCapture"}),
              PyDict({"networkCapture", "rootAccess"})>>
      [] OTHER -> <<ValueOf(ArgNamed(tool, name).type, FALSE),
                    ValueOf(ArgNamed(tool, name).type, TRUE)>>

\* the argument lists a tool is invoked with: the required arguments and at
\* most MaxArgs of the optional ones are supplied, each with one of its
\* values, the others are left None
ArgChoices(tool) ==
    UNION { { [n \in ArgNames(tool) |->
                  IF n \in supplied THEN Some(ArgValues(tool, n)[pick[n]]) ELSE None]
              : pick \in {f \in [supplied -> 1..3] :
                              \A m \in supplied : f[m] <= Len(ArgValues(tool, m))} }
            : supplied \in {S \in SUBSET ArgNames(tool) :
                                /\ RequiredArgs(tool) \subseteq S
                                /\ Cardinality(S \ RequiredArgs(tool)) <= MaxArgs} }

\* whether the tool puts the argument into params
InParams(a, value) ==
    CASE a.test = "if x"        -> PyTruthy(value)
      [] a.test \in {"is not None", "str().lower()"} -> value # None
      [] OTHER                  -> FALSE

\* params = {}; if <test>: params[name] = value; ...
\* (list_device_status sends privateOnly as str(privateOnly).lower())
query_params(tool, args) ==
    LET names == {n \in ArgNames(tool) : InParams(ArgNamed(tool, n), args[n])}
    IN  [n \in names |->
            IF ArgNamed(tool, n).test = "str().lower()"
            THEN PyStr(IF args[n][1].v THEN "true" ELSE "false")
            ELSE args[n][1]]

\* parameters a tool sends whatever its optional arguments are
FixedParams(tool) ==
    CASE tool = "get_account_info"     -> [username |-> PyStr("user")]
      [] tool = "get_recent_jobs"      -> [limit |-> PyInt(5)]
      [] tool = "get_real_device_jobs" -> [limit |-> PyInt(5), offset |-> PyInt(1)]
      [] OTHER -> EmptyDict

\* the tools that call sauce_api_call with params=
PassesParams ==
    {"get_account_info", "lookup_teams", "lookup_users", "lookup_service_accounts",
     "get_recent_jobs", "lookup_builds", "lookup_jobs_in_build", "get_real_device_jobs",
     "list_device_status", "list_device_sessions"}

\* the params= argument of the tool's sauce_api_call
ParamsOf(tool, args) ==
    IF tool \in PassesParams
    THEN LET fixed == FixedParams(tool)
             built == query_params(tool, args)
         IN  Some([n \in DOMAIN fixed \cup DOMAIN built |->
                      IF n \in DOMAIN built THEN built[n] ELSE fixed[n]])
    ELSE None

\* ---- response bodies and the pydantic models

\* a response body: whether response.json() can parse it, and the parsed dict
JsonBody(v) == [is_json |-> TRUE, v |-> v]
NotJsonBody == [is_json |-> FALSE, v |-> EmptyDict]

\* d restricted to the keys in `keys`
Restrict(d, keys) == [k \in DOMAIN d \cap keys |-> d[k]]

\* a JSON number and a JSON string, by their digits or characters
JsonInt(digits) == [t |-> "int", v |-> digits]
JsonStr(chars)  == [t |-> "str", v |-> chars]

\* an `int` field in pydantic's default (lax) mode: a string of digits is
\* converted to the number it spells
validate_int(value) == IF value.t = "str" THEN JsonInt(value.v) ELSE value

\* the models of models.py: the fields the top-level model declares, and the
\* fields of the model its `results` list holds (none has a default)
TopFields == {"links", "count", "results"}
ItemFields(schema) ==
    CASE schema \in {"AccountInfo", "LookupUsers"} ->
            {"id", "email", "username", "first_name", "last_name", "is_active",
             "organization", "roles", "teams"}
      [] schema = "LookupServiceAccounts" -> {"id", "username", "name", "team", "creator"}
      [] schema = "LookupTeamsResponse" ->
            {"id", "settings", "group", "is_default", "name", "org_uuid"}

\* the model each schema-validating tool validates its body with
SchemaOf(tool) ==
    CASE tool = "get_account_info"        -> "AccountInfo"
      [] tool = "lookup_teams"            -> "LookupTeamsResponse"
      [] tool = "lookup_users"            -> "LookupUsers"
      [] tool = "lookup_service_accounts" -> "LookupServiceAccounts"

SchemaTools ==
    {"get_account_info", "lookup_teams", "lookup_users", "lookup_service_accounts"}

\* Faulty variant: fields the model does not declare are kept (extra="allow")
model_validate_allows_extra(schema, body) ==
    IF TopFields \subseteq DOMAIN body
       /\ \A i \in 1..Len(body["results"]) :
              ItemFields(schema) \subseteq DOMAIN body["results"][i]
    THEN [raised |-> "no", type |-> "model", value |-> body]
    ELSE [raised |-> "ValidationError", type |-> "none", value |-> EmptyDict]

\* Model.model_validate(body): a required field that is missing raises
\* ValidationError; a BaseModel without model_config ignores the fields it
\* does not declare, at the top level and in every item of `results`
model_validate(schema, body) ==
    IF TopFields \subseteq DOMAIN body
       /\ \A i \in 1..Len(body["results"]) :
              ItemFields(schema) \subseteq DOMAIN body["results"][i]
    THEN [raised |-> "no", type |-> "model",
          value |-> [k \in TopFields |->
                        IF k = "results"
                        THEN [i \in 1..Len(body["results"]) |->
                                 Restrict(body["results"][i], ItemFields(schema))]
                        ELSE IF k = "count" THEN validate_int(body[k])
                        ELSE body[k]]]
    ELSE [raised |-> "ValidationError", type |-> "none", value |-> EmptyDict]

\* bodies a 200 carries for a schema-validating tool: the declared fields
\* only; one more field at the top level; one more field in an item; `count`
\* given as a string of digits; and a body without `count`
SchemaItem(schema, more) == Dict(ItemFields(schema) \cup more)
SchemaBody(schema, more, item_more) ==
    [k \in TopFields \cup more |->
        IF k = "results" THEN <<SchemaItem(schema, {}), SchemaItem(schema, item_more)>>
        ELSE IF k = "count" THEN JsonInt("2")
        ELSE "..."]
SchemaBodies(schema) ==
    { SchemaBody(schema, {}, {}),
      [SchemaBody(schema, {}, {}) EXCEPT !["count"] = JsonStr("2")],
      SchemaBody(schema, {"total"}, {}),
      SchemaBody(schema, {}, {"user_type"}),
      Restrict(SchemaBody(schema, {}, {}), {"links", "results"}) }

\* a JSON array at the top level of a body, by its items
JsonArray(items) == [array |-> items]

\* the job lists rest/v1/{username}/jobs answers with, newest first
JobLists == {JsonArray(<<>>), JsonArray(<<"job1">>), JsonArray(<<"job2", "job1">>)}

\* the bodies client.request can bring for a tool and a status
AssetTools == {"get_log_json_file", "get_network_har_file", "filter_har_data"}
Bodies(tool, outcome) ==
    IF outcome.kind # "status" THEN {NotJsonBody}
    ELSE IF outcome.status # 200
    THEN {NotJsonBody, JsonBody(Dict({"detail"}))}
    ELSE IF tool \in SchemaTools
    THEN {JsonBody(b) : b \in SchemaBodies(SchemaOf(tool))}
    ELSE IF tool \in AssetTools \cup {"get_test_assets"}
    THEN {JsonBody(m) : m \in ManifestPool}
    ELSE IF tool = "lookup_jobs_in_build"
    THEN {JsonBody([jobs |-> <<>>]), JsonBody([jobs |-> <<"job">>])}
    ELSE IF tool = "get_recent_jobs"
    THEN {NotJsonBody} \cup {JsonBody(jobs) : jobs \in JobLists}
    ELSE {NotJsonBody, JsonBody(Dict({"data"}))}

\* ---- what a tool makes of what sauce_api_call returned

Ret(type, value) == [raised |-> "no", type |-> type, value |-> value]
Raise(what)      == [raised |-> what, type |-> "none", value |-> EmptyDict]

\* response.json()
json(body) == IF body.is_json THEN Ret("json", body.v) ELSE Raise("JSONDecodeError")

\* the tools that call response.json() on whatever they got
UnguardedJson ==
    {"list_team_members", "get_my_active_team", "get_tunnel_version_downloads",
     "get_specific_device", "get_devices_status", "get_real_device_jobs",
     "get_specific_real_device_job", "get_private_devices", "get_storage_files",
     "get_storage_groups", "get_storage_groups_settings",
     "update_storage_group_settings"}

\* the tools that read response.status_code first, for a 404, then call json()
Unguarded404 == {"get_team", "get_user", "get_service_account", "get_build"}

\* get_test_assets as a tool: the manifest, an error dict, or the response
test_assets_result(response, body) ==
    IF response.type = "Response" /\ response.status_code = 200 /\ ~body.is_json
    THEN Raise("JSONDecodeError")
    ELSE LET asset_list == get_test_assets(response, body.v)
         IN  IF asset_list.type = "json" THEN Ret("json", asset_list.v)
             ELSE IF asset_list.type = "error" THEN Ret("dict", asset_list.v)
             ELSE Ret("Response", EmptyDict)

\* the asset tools up to their second request: get_asset_url raises, or the
\* tool goes on to fetch the asset
asset_tool_result(tool, response, body) ==
    IF response.type = "Response" /\ response.status_code = 200 /\ ~body.is_json
    THEN Raise("JSONDecodeError")
    ELSE LET asset_url == get_asset_url(get_test_assets(response, body.v), AssetKey(tool))
         IN  IF asset_url.raised # "no" THEN Raise(asset_url.raised)
             ELSE Ret("asset request", EmptyDict)

\* process_tunnel_response
process_tunnel_response(tool, response, body) ==
    IF response.type = "Response"
    THEN IF response.status_code = 200 THEN json(body)
         ELSE IF response.status_code \in {404, 500} THEN Ret("dict", Diagnostic(tool))
         ELSE Ret("dict", StatusError(tool))
    ELSE Ret("dict", ErrorValue(response))

\* launch_app once sauce_api_call has returned
launch_app_result(response, body) ==
    IF response.type = "dict" THEN Ret("dict", ErrorValue(response))
    ELSE IF response.status_code = 400
    THEN IF body.is_json
         THEN Ret("dict", Dict({"error", "session_id", "possible_reasons", "suggestions"}))
         ELSE Ret("dict", Dict({"error", "session_id"}))
    ELSE IF response.status_code = 404 THEN Ret("dict", Dict({"error", "session_id"}))
    ELSE IF response.status_code = 204
    THEN Ret("dict", Dict({"success", "message", "session_id", "app"}))
    ELSE json(body)

\* the tools of SauceLabsRDCAgent that have a branch for a 401 response
NotAuthorizedTools ==
    {"list_device_status", "list_device_sessions", "get_session_details",
     "allocate_device_and_create_session"}

\* the other tools of SauceLabsRDCAgent, once sauce_api_call has returned:
\* list_device_status reads response.status_code without an isinstance test,
\* the others return sauce_api_call's dict as it is; then the branches on the
\* status code, in the order of the code; then response.json()
rdc_tool_result(tool, response, body) ==
    IF response.type = "dict"
    THEN IF tool = "list_device_status" THEN Raise("AttributeError")
         ELSE Ret("dict", ErrorValue(response))
    ELSE IF /\ response.status_code = 400
            /\ tool \in {"allocate_device_and_create_session", "install_app_from_storage",
                         "open_url_or_deeplink", "execute_shell_command"}
    THEN IF ~body.is_json
         THEN Ret("dict", Dict({"error", IF tool = "allocate_device_and_create_session"
                                         THEN "device_criteria" ELSE "session_id"}))
         ELSE IF tool = "allocate_device_and_create_session"
         THEN Ret("dict", Dict({"error", "possible_reasons", "suggestions"}))
         ELSE Ret("dict", Dict({"error", "session_id", "possible_reasons", "suggestions"}))
    ELSE IF response.status_code = 404 /\ tool = "get_session_details"
    THEN Ret("dict", Dict({"error", "session_id", "possible_reasons", "suggestions"}))
    ELSE IF response.status_code = 404 /\ tool = "install_app_from_storage"
    THEN Ret("dict", Dict({"error", "session_id", "suggestions"}))
    ELSE IF response.status_code = 404
            /\ tool \in {"open_url_or_deeplink", "execute_shell_command"}
    THEN Ret("dict", Dict({"error", "session_id"}))
    ELSE IF response.status_code = 401 /\ tool \in NotAuthorizedTools
    THEN Ret("dict", Dict({"error", "possible_reasons", "suggestions"}))
    ELSE IF response.status_code = 204 /\ tool = "open_url_or_deeplink"
    THEN Ret("dict", Dict({"success", "message", "session_id", "url"}))
    ELSE json(body)

\* get_recent_jobs after its sauce_api_call: whatever it got, a list of jobs,
\* the body of a passed-through 404 or 500, or sauce_api_call's error dict, is
\* wrapped as {"jobs": ..., "total": len(...), "page": 1, "per_page": limit}
get_recent_jobs(response, body) ==
    LET wrap(jobs, total) ==
            Ret("dict", [jobs |-> jobs, total |-> total, page |-> 1,
                         per_page |-> FixedParams("get_recent_jobs").limit.v])
    IN  IF response.type # "Response"
        THEN wrap(ErrorValue(response), Cardinality(DOMAIN ErrorValue(response)))
        ELSE IF ~body.is_json THEN Raise("JSONDecodeError")
        ELSE IF response.status_code = 200 THEN wrap(body.v, Len(body.v.array))
        ELSE wrap(body.v, Cardinality(DOMAIN body.v))

\* the body of each tool after its sauce_api_call
tool_return(tool, response, body) ==
    LET is_response == response.type = "Response"
        status == response.status_code
    IN  CASE tool \in UnguardedJson ->
                IF is_response THEN json(body) ELSE Raise("AttributeError")
          [] tool \in Unguarded404 ->
                IF ~is_response THEN Raise("AttributeError")
                ELSE IF status = 404 THEN Ret("dict", Diagnostic(tool))
                ELSE json(body)
          [] tool = "get_job_details" ->
                IF ~is_response THEN Raise("AttributeError")
                ELSE IF status = 200 THEN json(body)
                ELSE IF status = 404 THEN Ret("dict", Diagnostic(tool))
                ELSE Ret("dict", StatusError(tool))
          [] tool = "get_specific_real_device_job_asset" ->
                IF ~is_response THEN Raise("AttributeError")
                ELSE IF status = 200
                THEN Ret("dict", Dict({"content", "encoding", "content_type",
                                       "filename", "size"}))
                ELSE json(body)
          [] tool \in {"lookup_users", "lookup_service_accounts"} ->
                IF ~is_response THEN Raise("AttributeError")
                ELSE IF ~body.is_json THEN Raise("JSONDecodeError")
                ELSE model_validate(SchemaOf(tool), body.v)
          [] tool \in {"get_account_info", "lookup_teams"} ->
                IF is_response
                THEN IF ~body.is_json THEN Raise("JSONDecodeError")
                     ELSE model_validate(SchemaOf(tool), body.v)
                ELSE IF tool = "lookup_teams"
                THEN Ret("ErrorResponse", ErrorValue(response))
                ELSE Ret("dict", ErrorValue(response))
          [] tool = "get_build_for_job" ->
                IF is_response
                THEN IF status = 404 THEN Ret("dict", Diagnostic(tool)) ELSE json(body)
                ELSE Ret("ErrorResponse", ErrorValue(response))
          [] tool = "lookup_builds" ->
                IF is_response THEN json(body) ELSE Ret("dict", ErrorValue(response))
          [] tool = "lookup_jobs_in_build" ->
                IF ~is_response THEN Ret("dict", ErrorValue(response))
                ELSE IF status = 200
                THEN IF ~body.is_json THEN Raise("JSONDecodeError")
                     ELSE IF "jobs" \in DOMAIN body.v /\ Len(body.v["jobs"]) = 0
                     THEN Ret("json", [k \in DOMAIN body.v \cup {"data_retention_info"} |->
                                          IF k \in DOMAIN body.v THEN body.v[k] ELSE "..."])
                     ELSE Ret("json", body.v)
                ELSE IF status = 404 THEN Ret("dict", Diagnostic(tool))
                ELSE Ret("dict", StatusError(tool))
          [] tool = "get_recent_jobs" -> get_recent_jobs(response, body)
          [] tool = "get_tunnels_for_user" ->
                IF ~is_response THEN Ret("dict", Dict({"tunnels", "count", "username"}))
                ELSE IF status \in {404, 403} THEN Ret("dict", Dict({"error"}))
                ELSE IF ~body.is_json THEN Raise("JSONDecodeError")
                ELSE Ret("dict", Dict({"tunnels", "count", "username"}))
          [] tool \in {"get_tunnel_information", "get_current_jobs_for_tunnel"} ->
                process_tunnel_response(tool, response, body)
          [] tool = "get_test_assets" -> test_assets_result(response, body)
          [] tool \in AssetTools -> asset_tool_result(tool, response, body)
          [] tool = "upload_file_to_storage" ->
                IF is_response THEN Ret("Response", EmptyDict)
                ELSE Ret("dict", ErrorValue(response))
          [] tool = "launch_app" -> launch_app_result(response, body)
          [] OTHER -> rdc_tool_result(tool, response, body)

\* ---- the invocation

\* the tools SauceLabsAgent registers, and the session and device tools of
\* SauceLabsRDCAgent
MainTools ==
    {"get_account_info", "lookup_teams", "get_team", "list_team_members",
     "lookup_users", "get_user", "get_my_active_team", "lookup_service_accounts",
     "get_service_account", "get_recent_jobs", "get_job_details", "get_test_assets",
     "get_log_json_file", "get_network_har_file", "filter_har_data",
     "get_build_for_job", "get_build", "lookup_builds", "lookup_jobs_in_build",
     "get_tunnels_for_user", "get_tunnel_information", "get_tunnel_version_downloads",
     "get_current_jobs_for_tunnel", "get_storage_files", "get_storage_groups",
     "get_storage_groups_settings", "upload_file_to_storage",
     "update_storage_group_settings", "get_specific_device", "get_devices_status",
     "get_real_device_jobs", "get_specific_real_device_job",
     "get_specific_real_device_job_asset", "get_private_devices"}
RdcTools ==
    {"launch_app", "list_device_status", "list_device_sessions", "get_session_details",
     "allocate_device_and_create_session", "install_app_from_storage",
     "open_url_or_deeplink", "execute_shell_command"}
AgentOf(tool) == IF tool \in RdcTools THEN "rdc" ELSE "main"

NoOutcome == [kind |-> "none", status |-> 0]
NoToolCall ==
    [agent |-> "none", tool |-> "none", args |-> EmptyDict, outcome |-> NoOutcome,
     body |-> NotJsonBody]
NoToolResult == Ret("none", EmptyDict)

ToolIdle ==
    /\ tool_pc = "idle"
    /\ tool_call = NoToolCall
    /\ tool_sent = <<>>
    /\ tool_result = NoToolResult

\* launch_app before its request: the two parameter checks, each of which
\* ends the call at once; None when both pass
launch_app_check(args) ==
    IF PyTruthy(args["bundleId"])
       /\ (PyTruthy(args["packageName"]) \/ PyTruthy(args["activityName"]))
    THEN Some(Ret("dict", [error |-> "Cannot specify both", suggestions |-> "..."]))
    ELSE IF ~PyTruthy(args["bundleId"]) /\ ~PyTruthy(args["packageName"])
    THEN Some(Ret("dict", [error |-> "Must specify either", suggestions |-> "..."]))
    ELSE None

\* the values each validated argument may take
valid_states(tool) ==
    IF tool = "list_device_status"
    THEN {"AVAILABLE", "IN_USE", "CLEANING", "REBOOTING", "MAINTENANCE", "OFFLINE"}
    ELSE {"PENDING", "CREATING", "ACTIVE", "CLOSING", "CLOSED", "ERRORED"}
valid_os == {os_android, os_ios}
valid_features ==
    {"biometricsInterception", "bypassScreenshotRestriction", "deviceVitals",
     "errorReporting", "imageInjection", "networkCapture"}

\* Faulty variant: no argument is validated before the request
local_validation_skipped(tool, args) == None

\* what a tool of SauceLabsRDCAgent checks in its arguments before its
\* request: the error dict it returns at once, or None when the checks pass
local_validation(tool, args) ==
    CASE tool = "launch_app" -> launch_app_check(args)
      [] tool \in {"list_device_status", "list_device_sessions"} ->
            IF args["state"] # None /\ args["state"][1].v \notin valid_states(tool)
            THEN Some(Ret("dict", Dict({"error", "valid_states", "suggestions"})))
            ELSE None
      [] tool = "allocate_device_and_create_session" ->
            IF args["os"] # None /\ Lower(args["os"][1].v) \notin valid_os
            THEN Some(Ret("dict", Dict({"error", "valid_os", "suggestions"})))
            ELSE None
      [] tool = "install_app_from_storage" ->
            IF args["features"] # None /\ args["features"][1].v \ valid_features # {}
            THEN Some(Ret("dict", Dict({"error", "valid_features", "suggestions"})))
            ELSE None
      [] tool = "open_url_or_deeplink" ->
            IF ~PyTruthy(args["url"])
            THEN Some(Ret("dict", Dict({"error", "url", "suggestions"})))
            ELSE None
      [] tool = "execute_shell_command" ->
            IF ~PyTruthy(args["adbShellCommand"])
            THEN Some(Ret("dict", Dict({"error", "command", "suggestions"})))
            ELSE None
      [] OTHER -> None

\* a tool from its entry to the await of its sauce_api_call
ToolInvoke(tool, args) ==
    /\ tool_pc = "idle"
    /\ tool_call' = [agent |-> AgentOf(tool), tool |-> tool, args |-> args,
                     outcome |-> NoOutcome, body |-> NotJsonBody]
    /\ LET early == local_validation(tool, args)
       IN  IF early # None
           THEN /\ tool_sent' = <<>>
                /\ tool_result' = early[1]
                /\ tool_pc' = "returned"
           ELSE /\ tool_sent' = client_request(all_params(AgentOf(tool), ParamsOf(tool, args)))
                /\ tool_result' = NoToolResult
                /\ tool_pc' = "awaiting"
    /\ UNCHANGED <<har_vars, filter_vars, api_vars, main_vars>>

\* the request ends: sauce_api_call classifies it and the tool shapes its result
ToolRespond(outcome, body) ==
    /\ tool_pc = "awaiting"
    /\ body \in Bodies(tool_call.tool, outcome)
    /\ tool_call' = [tool_call EXCEPT !.outcome = outcome, !.body = body]
    /\ tool_result' = tool_return(tool_call.tool,
                                  IF tool_call.agent = "main" THEN sauce_api_call(outcome)
                                  ELSE rdc_sauce_api_call(outcome),
                                  body)
    /\ tool_pc' = "returned"
    /\ UNCHANGED <<tool_sent, har_vars, filter_vars, api_vars, main_vars>>

---------------------------------------------------------------------------
(* The Appium server (appium.py): gesture tools that post W3C payloads to  *)
(* the Appium endpoint of a device session.  A URL is the sequence of its  *)
(* "/"-separated segments.                                                 *)

\* the tools AppiumMcpServer.__init__ registers
AppiumTools ==
    {"appium_tap", "appium_swipe", "appium_type", "appium_long_press",
     "appium_scroll", "appium_find_element", "appium_tap_element", "appium_get_text"}

\* session URLs a caller passes: the RDC form, the same without the Appium
\* suffix, and URLs in which "/sessions/" does not occur
url_rdc_session ==
    <<"https:", "", "api.us-west-1.saucelabs.com", "rdc", "v2", "sessions", "13b85b71",
      "appium", "wd", "hub">>
url_rdc_bare ==
    <<"https:", "", "api.us-west-1.saucelabs.com", "rdc", "v2", "sessions", "13b85b71">>
url_singular == <<"https:", "", "localhost:4723", "wd", "hub", "session", "13b85b71">>
url_sessions_last == <<"https:", "", "api.us-west-1.saucelabs.com", "rdc", "v2", "sessions">>
SessionUrls == {url_rdc_session, url_rdc_bare, url_singular, url_sessions_last}

\* the positions at which session_url.split('/sessions/') cuts: a segment
\* "sessions" with a "/" before it and a "/" after it
SessionsAt(session_url) ==
    {i \in 2..(Len(session_url) - 1) : session_url[i] = "sessions"}

\* _extract_session_id: the segment after the first "/sessions/", or ValueError
extract_session_id(session_url) ==
    IF SessionsAt(session_url) # {}
    THEN [raised |-> "no",
          id |-> session_url[(CHOOSE i \in SessionsAt(session_url) :
                                 \A j \in SessionsAt(session_url) : i <= j) + 1]]
    ELSE [raised |-> "ValueError: Invalid session URL format", id |-> ""]

\* session_url.replace('/appium/wd/hub', ''), from segment i on
RECURSIVE without_hub(_, _)
without_hub(session_url, i) ==
    IF i > Len(session_url) THEN <<>>
    ELSE IF /\ i > 1 /\ i + 2 <= Len(session_url)
            /\ session_url[i] = "appium" /\ session_url[i + 1] = "wd"
            /\ session_url[i + 2] = "hub"
    THEN without_hub(session_url, i + 3)
    ELSE <<session_url[i]>> \o without_hub(session_url, i + 1)

\* _get_base_url: {base}/appium/wd/hub/session/{session_id}, or ValueError
get_base_url(session_url) ==
    LET session == extract_session_id(session_url)
    IN  IF session.raised # "no" THEN [raised |-> session.raised, url |-> <<>>]
        ELSE [raised |-> "no",
              url |-> without_hub(session_url, 1)
                          \o <<"appium", "wd", "hub", "session", session.id>>]

\* a request on the wire
AppiumRequest(method, url, auth) == [method |-> method, url |-> url, auth |-> auth]

\* the endpoint and method each tool's first request goes to
element_id == "el1"
EndpointOf(tool) ==
    CASE tool \in {"appium_tap", "appium_long_press", "appium_swipe"} -> <<"actions">>
      [] tool = "appium_type"         -> <<"keys">>
      [] tool = "appium_scroll"       -> <<"window", "rect">>
      [] tool = "appium_find_element" -> <<"element">>
      [] tool = "appium_tap_element"  -> <<"element", element_id, "click">>
      [] tool = "appium_get_text"     -> <<"element", element_id, "text">>
MethodOf(tool) == IF tool \in {"appium_scroll", "appium_get_text"} THEN "GET" ELSE "POST"

\* the tools that go through _execute_appium_command, and the two that build
\* their own request
ThroughExecute ==
    {"appium_tap", "appium_long_press", "appium_scroll", "appium_find_element",
     "appium_tap_element"}
OwnRequest == {"appium_swipe", "appium_type"}

\* the failure dict of _execute_appium_command
CommandError == [error |-> "...", status |-> "failed"]
\* {"status": "error", "message": str(e)}
StatusErrorMessage == [status |-> "error", message |-> "..."]

\* _execute_appium_command up to its request: ValueError from _get_base_url,
\* an error dict when a credential is missing, or the request to send
execute_appium_command(session_url, endpoint, method, credentials) ==
    LET base == get_base_url(session_url)
    IN  IF base.raised # "no" THEN [step |-> "raise", what |-> base.raised]
        ELSE IF ~credentials THEN [step |-> "return", value |-> CommandError]
        ELSE [step |-> "request",
              request |-> AppiumRequest(method, base.url \o endpoint, TRUE)]

\* _execute_appium_command after its request: response.json(), or the error
\* dict for an error status, a network failure or a body that is not JSON
AppiumBodies ==
    {NotJsonBody, JsonBody(Dict({"value"})), JsonBody(Dict({"value", "error"})),
     JsonBody(Dict({"sessionId"}))}
command_result(outcome, body) ==
    IF outcome.kind = "status" /\ ~raise_for_status(outcome.status) /\ body.is_json
    THEN body.v
    ELSE CommandError

\* scroll directions
Directions ==
    { <<"u", "p">>, <<"D", "O", "W", "N">>, <<"l", "e", "f", "t">>,
      <<"r", "i", "g", "h", "t">>, <<"d", "i", "a", "g">> }
ValidDirections ==
    { <<"u", "p">>, <<"d", "o", "w", "n">>, <<"l", "e", "f", "t">>,
      <<"r", "i", "g", "h", "t">> }

\* a tool from its entry to its first await, or to its end when it sends
\* nothing
appium_start(tool, session_url, credentials) ==
    CASE tool = "appium_get_text" ->
            \* the body only defines a local function and falls off the end
            [step |-> "return", type |-> "None", value |-> EmptyDict]
      [] tool \in OwnRequest ->
            LET session == extract_session_id(session_url)
            IN  IF session.raised # "no" THEN [step |-> "raise", what |-> session.raised]
                ELSE [step |-> "request",
                      request |-> AppiumRequest("POST",
                                      without_hub(session_url, 1)
                                          \o <<"session", session.id>> \o EndpointOf(tool),
                                      FALSE)]
      [] tool \in ThroughExecute ->
            LET command == execute_appium_command(session_url, EndpointOf(tool),
                                                  MethodOf(tool), credentials)
            IN  IF command.step = "raise"
                THEN IF tool = "appium_tap"
                     THEN [step |-> "return", type |-> "dict", value |-> StatusErrorMessage]
                     ELSE command
                ELSE IF command.step = "return"
                THEN [step |-> "return", type |-> "dict",
                      value |-> IF tool = "appium_tap" THEN StatusErrorMessage
                                ELSE command.value]
                ELSE command

\* a tool after its request
appium_finish(tool, direction, outcome, body) ==
    LET answer == command_result(outcome, body)
        failed == "error" \in DOMAIN answer
    IN  CASE tool \in OwnRequest ->
                IF outcome.kind = "status" /\ ~raise_for_status(outcome.status) /\ body.is_json
                THEN Ret("dict", [status |-> "success", message |-> "...", result |-> body.v])
                ELSE Ret("dict", StatusErrorMessage)
          [] tool = "appium_tap" ->
                IF failed THEN Ret("dict", StatusErrorMessage)
                ELSE Ret("dict", [status |-> "success", message |-> "...", result |-> answer])
          [] tool \in {"appium_long_press", "appium_tap_element"} ->
                IF failed THEN Ret("dict", answer)
                ELSE Ret("dict", [status |-> "success", message |-> "..."])
          [] tool = "appium_find_element" ->
                IF ~failed /\ "value" \in DOMAIN answer
                THEN Ret("dict", [status |-> "success", element_id |-> "...",
                                  message |-> "..."])
                ELSE Ret("dict", answer)
          [] tool = "appium_scroll" ->
                IF failed THEN Ret("dict", answer)
                ELSE IF Lower(direction) \in ValidDirections
                THEN Raise("AttributeError")      \* self.swipe is not defined
                ELSE Ret("dict", [error |-> "Invalid direction", status |-> "failed"])

AppiumInvoke(tool, session_url, direction, credentials) ==
    /\ tool_pc = "idle"
    /\ tool_call' = [agent |-> "appium", tool |-> tool, session_url |-> session_url,
                     direction |-> direction, credentials |-> credentials,
                     outcome |-> NoOutcome, body |-> NotJsonBody]
    /\ LET start == appium_start(tool, session_url, credentials)
       IN  CASE start.step = "request" ->
                    /\ tool_sent' = <<start.request>>
                    /\ tool_result' = NoToolResult
                    /\ tool_pc' = "awaiting"
             [] start.step = "raise" ->
                    /\ tool_sent' = <<>>
                    /\ tool_result' = Raise(start.what)
                    /\ tool_pc' = "returned"
             [] start.step = "return" ->
                    /\ tool_sent' = <<>>
                    /\ tool_result' = Ret(start.type, start.value)
                    /\ tool_pc' = "returned"
    /\ UNCHANGED <<har_vars, filter_vars, api_vars, main_vars>>

AppiumRespond(outcome, body) ==
    /\ tool_pc = "awaiting"
    /\ tool_call.agent = "appium"
    /\ tool_call' = [tool_call EXCEPT !.outcome = outcome, !.body = body]
    /\ tool_result' = appium_finish(tool_call.tool, tool_call.direction, outcome, body)
    /\ tool_pc' = "returned"
    /\ UNCHANGED <<tool_sent, har_vars, filter_vars, api_vars, main_vars>>

---------------------------------------------------------------------------
(* Specifications.                                                         *)

HarIdle ==
    /\ remote_har = [j \in Jobs |-> <<>>]
    /\ har_cache = [j \in Jobs |-> NotCached]
    /\ pc = [t \in Tasks |-> "ready"]
    /\ call = [t \in Tasks |-> NoInvocation]
    /\ sent = [t \in Tasks |-> <<>>]
    /\ result = NoResult
    /\ har_fetched = [j \in Jobs |-> FALSE]

FilterIdle ==
    /\ f_entries = <<>>
    /\ f_criteria = NoCriteria
    /\ f_out = <<>>

\* the HAR tools and their cache
Init == HarInit /\ FilterIdle /\ ApiInit /\ MainIdle /\ ToolIdle

Next ==
    \/ \E t \in Tasks, job \in Jobs, c \in CacheCriteria : filter_har_data(t, job, c)
    \/ \E t \in Tasks, job \in Jobs, c \in CacheCriteria : get_network_har_file(t, job, c)
    \/ \E t \in Tasks, job \in Jobs : get_log_json_file(t, job)
    \/ \E t \in Tasks, outcome \in HarOutcomes, manifest \in ManifestPool :
           ManifestResponse(t, outcome, manifest)
    \/ \E t \in Tasks, outcome \in HarOutcomes, body_is_json \in BOOLEAN :
           AssetResponse(t, outcome, body_is_json)

Spec == Init /\ [][Next]_vars

\* the entry filter as a function of its inputs
InitFilter == HarIdle /\ FilterInit /\ ApiInit /\ MainIdle /\ ToolIdle

NextFilter == ApplyFilter \/ ReapplyFilter

SpecFilter == InitFilter /\ [][NextFilter]_vars

\* one invocation of sauce_api_call
InitApi == HarIdle /\ FilterIdle /\ ApiInit /\ MainIdle /\ ToolIdle

NextApi ==
    \/ \E agent \in Agents, params \in ParamsPool, files \in FilesPool :
           ApiInvoke(agent, params, files)
    \/ \E outcome \in Outcomes : ApiRespond(outcome)

SpecApi == InitApi /\ [][NextApi]_vars

\* the start of either server process
InitMain == HarIdle /\ FilterIdle /\ ApiInit /\ MainInit /\ ToolIdle

NextMain ==
    \/ MainCheckStdio
    \/ MainGetCredential("SAUCE_ACCESS_KEY", "SAUCE_USERNAME")
    \/ MainGetCredential("SAUCE_USERNAME", "SAUCE_REGION")
    \/ MainGetRegion
    \/ MainConstructAgent
    \/ MainRun
    \/ MainServerEnds

SpecMain == InitMain /\ [][NextMain]_vars

\* one invocation of an endpoint tool
InitTools == HarIdle /\ FilterIdle /\ ApiInit /\ MainIdle /\ ToolIdle

AllBodies == UNION {Bodies(tool, outcome) : tool \in MainTools \cup RdcTools, outcome \in Outcomes}

NextTools ==
    \/ \E tool \in MainTools \cup RdcTools : \E args \in ArgChoices(tool) :
           ToolInvoke(tool, args)
    \/ \E outcome \in Outcomes, body \in AllBodies : ToolRespond(outcome, body)

SpecTools == InitTools /\ [][NextTools]_vars

\* one invocation of an Appium tool
InitAppium == HarIdle /\ FilterIdle /\ ApiInit /\ MainIdle /\ ToolIdle

NextAppium ==
    \/ \E tool \in AppiumTools, session_url \in SessionUrls, direction \in Directions,
           credentials \in BOOLEAN :
           AppiumInvoke(tool, session_url, direction, credentials)
    \/ \E outcome \in Outcomes, body \in AppiumBodies : AppiumRespond(outcome, body)

SpecAppium == InitAppium /\ [][NextAppium]_vars

---------------------------------------------------------------------------
(* Properties.                                                             *)

\* the invocation result reports on, when a step returned something
Returns(op) == result.call.op = op

\* what filtering the document as fetched with the call's own criteria gives
ExpectedOfFetched(job, c) ==
    IF AnyCriteria(c) THEN FilterEntries(remote_har[job], c) ELSE remote_har[job]

\* C1: once a filter_har_data call for a job has received the HAR document
\* with a 200 (and so stored it), a filter_har_data call for that job that
\* starts afterwards issues no HTTP request at all, neither the manifest
\* request nor the asset request, whatever its criteria: it is never found
\* in flight, and it returns having sent nothing.
C1_NoRequestAfterFetch ==
    /\ \A t \in Tasks :
           call[t].op = "filter_har_data" /\ call[t].after_fetch => sent[t] = <<>>
    /\ Returns("filter_har_data") /\ result.call.after_fetch => result.sent = <<>>

C1_Witness ==
    /\ Returns("filter_har_data")
    /\ result.call.after_fetch
    /\ AnyCriteria(result.call.criteria)
    /\ result.ret.kind = "har"
    /\ result.sent = <<>>

\* C2: every filter_har_data call that returns a HAR returns exactly the
\* entries of the document as fetched that satisfy the call's own criteria,
\* in their original order, whatever calls were made before it.
C2_ResultIsFilterOfFetched ==
    Returns("filter_har_data") /\ result.ret.kind = "har"
        => result.ret.entries = ExpectedOfFetched(result.call.job, result.call.criteria)

\* C3: a HAR document held in the cache stays equal to the document as it was
\* fetched: a filter call never changes the entries array of the cached document.
C3_CachedDocumentUnchanged ==
    \A j \in Jobs :
        har_fetched[j] /\ har_cache[j].kind = "har" => har_cache[j] = HarDoc(remote_har[j])

\* C4: in every filtered result of filter_har_data and get_network_har_file,
\* original_request_count is the number of entries of the unfiltered source
\* document, filtered_request_count is the number of entries returned, and the
\* metadata records the four criteria as supplied.
C4_MetadataCounts ==
    result.ret.meta # NoMeta =>
        LET meta == result.ret.meta[1]
            c == result.call.criteria
        IN  /\ meta.original_request_count = Len(remote_har[result.call.job])
            /\ meta.filtered_request_count = Len(result.ret.entries)
            /\ meta.filter_category = c.filter_category
            /\ meta.custom_domains = c.custom_domains
            /\ meta.resource_types = c.resource_types
            /\ meta.status_codes = c.status_codes

\* criterion by criterion, what C5 asks of an included entry
EntryUrl(entry)    == Lower(Get(Get(entry, "request", EmptyDict), "url", <<>>))
EntryType(entry)   == Get(entry, "_resourceType", <<>>)
EntryStatus(entry) == Get(Get(entry, "response", EmptyDict), "status", 0)

PassesStatus(entry, c) ==
    Truthy(c.status_codes) => InList(EntryStatus(entry), c.status_codes[1])
PassesType(entry, c) ==
    Truthy(c.resource_types) => InList(EntryType(entry), c.resource_types[1])
PassesCategory(entry, c) ==
    Truthy(c.filter_category) =>
        matches_category(entry, c.filter_category[1], EntryUrl(entry),
                         EntryType(entry), EntryStatus(entry))
\* the pattern as supplied, looked for in the lower-cased URL
PassesDomainsAsSupplied(entry, c) ==
    Truthy(c.custom_domains) =>
        \E i \in 1..Len(c.custom_domains[1]) : Contains(EntryUrl(entry), c.custom_domains[1][i])
\* the lower-cased pattern, looked for in the lower-cased URL
PassesDomainsLowered(entry, c) ==
    Truthy(c.custom_domains) =>
        \E i \in 1..Len(c.custom_domains[1]) :
            Contains(EntryUrl(entry), Lower(c.custom_domains[1][i]))

\* C5 (as claimed): the filter keeps an entry if and only if its status is in
\* status_codes, its resource type is in resource_types, its lower-cased URL
\* contains at least one custom_domains pattern, and the category predicate
\* holds; an absent or empty criterion imposes no restriction.
C5_IncludedIffPassesAll ==
    Len(f_out) >= 1 =>
        f_out[1] = SelectSeq(f_entries, LAMBDA id :
                       /\ PassesStatus(EntryPool[id], f_criteria)
                       /\ PassesType(EntryPool[id], f_criteria)
                       /\ PassesDomainsAsSupplied(EntryPool[id], f_criteria)
                       /\ PassesCategory(EntryPool[id], f_criteria))

\* C5 (amended): as above, with the custom_domains patterns lower-cased before
\* they are looked for: the lower-cased URL contains the lower-cased form of at
\* least one pattern.
C5_IncludedIffPassesAllLowered ==
    Len(f_out) >= 1 =>
        f_out[1] = SelectSeq(f_entries, LAMBDA id :
                       /\ PassesStatus(EntryPool[id], f_criteria)
                       /\ PassesType(EntryPool[id], f_criteria)
                       /\ PassesDomainsLowered(EntryPool[id], f_criteria)
                       /\ PassesCategory(EntryPool[id], f_criteria))

\* all four criteria supplied, one entry kept and one dropped
C5_Witness ==
    /\ Len(f_out) = 1
    /\ Truthy(f_criteria.filter_category) /\ Truthy(f_criteria.custom_domains)
    /\ Truthy(f_criteria.resource_types) /\ Truthy(f_criteria.status_codes)
    /\ f_criteria.custom_domains = Some(<<pat_IO>>)
    /\ Len(f_entries) = 2
    /\ Len(f_out[1]) = 1

\* C6: with none of the four criteria supplied, filter_har_data and
\* get_network_har_file return the full HAR document: every fetched entry is
\* present and there is no _filter_metadata block.
C6_NoCriteriaFullDocument ==
    ( /\ Returns("filter_har_data") \/ Returns("get_network_har_file")
      /\ ~AnyCriteria(result.call.criteria)
      /\ result.ret.kind = "har" )
    => ( /\ result.ret.entries = remote_har[result.call.job]
         /\ result.ret.meta = NoMeta )

\* C7: filtering with criteria C the entries that filtering with C produced
\* yields the same entries again.
C7_FilterIdempotent == Len(f_out) = 2 => f_out[2] = f_out[1]

C7_Witness ==
    /\ Len(f_out) = 2
    /\ Len(f_entries) = 2
    /\ Len(f_out[1]) = 1
    /\ f_out[2] = f_out[1]

\* only the category is supplied
OnlyCategory(c, category) ==
    /\ c.filter_category = Some(category)
    /\ ~Truthy(c.custom_domains) /\ ~Truthy(c.resource_types) /\ ~Truthy(c.status_codes)

\* C8: with filter_category "errors" and no other criterion, the filtered
\* result holds exactly the entries whose response status is 400 or greater;
\* an entry with no recorded status is left out.
C8_ErrorsCategory ==
    Len(f_out) >= 1 /\ OnlyCategory(f_criteria, cat_errors) =>
        f_out[1] = SelectSeq(f_entries, LAMBDA id :
                       /\ "response" \in DOMAIN EntryPool[id]
                       /\ "status" \in DOMAIN EntryPool[id].response
                       /\ EntryPool[id].response.status >= 400)

\* an entry with status 400 kept, one with no status dropped
C8_Witness ==
    /\ Len(f_out) = 1
    /\ OnlyCategory(f_criteria, cat_errors)
    /\ f_entries = <<6, 5>>
    /\ f_out[1] = <<5>>

\* C9: with filter_category "slow" and no other criterion, the filtered result
\* holds exactly the entries whose recorded total time is strictly greater
\* than 1000; an entry at exactly 1000 is left out.
C9_SlowCategory ==
    Len(f_out) >= 1 /\ OnlyCategory(f_criteria, cat_slow) =>
        f_out[1] = SelectSeq(f_entries, LAMBDA id :
                       /\ "time" \in DOMAIN EntryPool[id]
                       /\ EntryPool[id].time > 1000)

\* an entry at 1000 dropped, one at 1001 kept
C9_Witness ==
    /\ Len(f_out) = 1
    /\ OnlyCategory(f_criteria, cat_slow)
    /\ f_entries = <<3, 2>>
    /\ f_out[1] = <<2>>

\* C10: sauce_api_call, of either agent, never raises; it returns the response
\* object exactly when the request ended in a 2xx status or in 404 or 500, and
\* a dictionary with an error key for every other status, for a network
\* failure and for any other exception.
C10_OutcomeClassified ==
    api_pc = "returned" =>
        LET o == api_call.outcome
            passed == o.kind = "status"
                        /\ ((200 <= o.status /\ o.status <= 299) \/ o.status \in {404, 500})
        IN  /\ api_ret.type \in {"Response", "dict"}
            /\ api_ret.type = "Response" <=> passed
            /\ api_ret.type = "Response" => api_ret.status_code = o.status
            /\ api_ret.type = "dict" => api_ret.error # "none"

\* a 500 handed back as the response object
C10_Witness ==
    /\ api_pc = "returned"
    /\ api_call.outcome = [kind |-> "status", status |-> 500]
    /\ api_ret = Response(500)

\* an upload whose file open() cannot read: the invocation ends in the
\* except clause before client.request is reached
OpenFails(c) == c.files # None /\ ~Readable(c.files[1])

\* C11 (as claimed): every invocation of sauce_api_call that has ended has sent
\* exactly one HTTP request, whatever the request ended in.
C11_ExactlyOneRequest ==
    api_pc = "returned" => Len(api_sent) = 1

\* C11 (amended): an invocation of sauce_api_call never sends more than one
\* HTTP request, with no repeat after an error status or a network failure; it
\* has sent exactly one when it ends, unless opening an upload file failed, in
\* which case it ends with an error dict and has sent none.
C11_OneRequestUnlessOpenFails ==
    /\ Len(api_sent) <= 1
    /\ api_pc = "awaiting" => Len(api_sent) = 1
    /\ api_pc = "returned" =>
           /\ Len(api_sent) = (IF OpenFails(api_call) THEN 0 ELSE 1)
           /\ OpenFails(api_call) => api_ret = ErrorDict("unexpected")

C11_Witness ==
    /\ api_pc = "returned"
    /\ api_call.outcome.kind = "request_error"
    /\ api_ret = ErrorDict("network")
    /\ Len(api_sent) = 1

\* C19: every request sauce_api_call sends carries ai = "mcp" (main agent) or
\* ai = "rdc_mcp" (RDC agent), with or without caller parameters, and keeps the
\* caller's other parameters; a caller's own value under ai is overwritten.
C19_MarkerOnEveryRequest ==
    \A i \in 1..Len(api_sent) :
        /\ "ai" \in DOMAIN api_sent[i]
        /\ api_sent[i].ai = (IF api_call.agent = "main" THEN "mcp" ELSE "rdc_mcp")
        /\ api_call.params # None =>
               \A k \in DOMAIN api_call.params[1] \ {"ai"} :
                   k \in DOMAIN api_sent[i] /\ api_sent[i][k] = api_call.params[1][k]

C19_Witness ==
    /\ api_call.agent = "rdc"
    /\ api_call.params = Some([ai |-> "user", limit |-> "0"])
    /\ api_sent = << [ai |-> "rdc_mcp", limit |-> "0"] >>

\* C13: when the manifest a job's asset listing returned lacks the key the tool
\* asks for, get_log_json_file, get_network_har_file and filter_har_data end in
\* a ValueError that names the missing key and lists exactly the keys the
\* manifest has, and the only request the call has issued is the manifest
\* request: no asset request is sent and no URL is made up.
C13_MissingAssetKeyRaises ==
    /\ \A t \in Tasks :
           pc[t] = "sauce_api_call" =>
               LET key == AssetKey(call[t].op)
                   manifest == call[t].asset_list.v
               IN  /\ call[t].asset_list.type = "json"
                   /\ key \in DOMAIN manifest
                   /\ sent[t] = <<ManifestRequest(call[t].job),
                                  AssetRequest(call[t].job, manifest[key].v)>>
    /\ (/\ result.call.asset_list.type = "json"
        /\ AssetKey(result.call.op) \notin DOMAIN result.call.asset_list.v)
       => /\ result.ret.kind = "ValueError: asset not found"
          /\ result.ret.message =
                 Some([asset_key |-> AssetKey(result.call.op),
                       available |-> DOMAIN result.call.asset_list.v])
          /\ result.sent = <<ManifestRequest(result.call.job)>>

C13_Witness ==
    /\ result.call.op = "get_log_json_file"
    /\ result.call.asset_list.type = "json"
    /\ "sauce-log" \notin DOMAIN result.call.asset_list.v
    /\ result.ret.kind = "ValueError: asset not found"
    /\ result.ret.message =
           Some([asset_key |-> "sauce-log", available |-> {"network.har"}])
    /\ result.sent = <<ManifestRequest(result.call.job)>>

CredentialsSet ==
    getenv("SAUCE_USERNAME") # None /\ getenv("SAUCE_ACCESS_KEY") # None

\* the region selects the alternate URL (compared upper-cased) and none is set
OtherWithoutUrl ==
    Upper(SAUCE_REGION) = str_OTHER /\ ~Truthy(getenv("ALTERNATE_URL"))

ServerStarted == main_pc \in {"serving", "returned"}

\* C15: a network client exists only if both SAUCE_USERNAME and
\* SAUCE_ACCESS_KEY are set and a non-empty base URL was resolved; with a
\* credential missing, or with region OTHER and no ALTERNATE_URL, the process
\* never has a client and never runs the MCP server, and when it ends it ends
\* with a failure status; the server runs only once the client exists; and
\* ALTERNATE_URL is read from the environment only when the region is OTHER.
C15_NoClientWithoutCredentials ==
    /\ client # None => CredentialsSet /\ Truthy(client)
    /\ (~CredentialsSet \/ OtherWithoutUrl) =>
           /\ client = None
           /\ main_pc # "run" /\ ~ServerStarted
           /\ exit_status \in {None, Some(1)}
    /\ (main_pc = "run" \/ ServerStarted) => client # None
    /\ "ALTERNATE_URL" \in getenv_log => Upper(SAUCE_REGION) = str_OTHER

C15_Witness ==
    /\ CredentialsSet
    /\ getenv("SAUCE_REGION") = Some(str_OTHER)
    /\ getenv("ALTERNATE_URL") = None
    /\ "ALTERNATE_URL" \in getenv_log
    /\ main_pc = "ValueError"
    /\ client = None
    /\ exit_status = Some(1)

AnyTty == \E s \in Streams : isatty[s]

\* C16: when stdin, stdout or stderr is a terminal, main reads no environment
\* variable, constructs no agent and no client and never runs the server: it
\* goes from the stdio check to sys.exit with status 1.
C16_TtyExitsFirst ==
    AnyTty =>
        /\ getenv_log = {}
        /\ client = None
        /\ main_pc \in {"check_stdio", "sys.exit"}
        /\ main_pc = "check_stdio" => exit_status = None
        /\ main_pc = "sys.exit" => exit_status = Some(1)

C16_Witness ==
    /\ isatty = [s \in Streams |-> s = "stderr"]
    /\ CredentialsSet
    /\ main_pc = "sys.exit"
    /\ exit_status = Some(1)
    /\ getenv_log = {}

ToolReturned(tools) == tool_pc = "returned" /\ tool_call.tool \in tools

\* the vendor call ended in a network failure or in an HTTP error status that
\* sauce_api_call does not pass through
FailedNotPassedThrough(outcome) ==
    \/ outcome.kind = "request_error"
    \/ /\ outcome.kind = "status"
       /\ raise_for_status(outcome.status)
       /\ outcome.status \notin PassThrough

\* C12: whenever the vendor call of a registered tool of SauceLabsAgent ends in
\* a network failure or an HTTP error status that is not passed through, the
\* tool returns a value that has an error key, and raises nothing.
C12_ErrorValueReturned ==
    (ToolReturned(MainTools) /\ FailedNotPassedThrough(tool_call.outcome))
        => /\ tool_result.raised = "no"
           /\ "error" \in DOMAIN tool_result.value

DiagnosticTools ==
    {"get_job_details", "get_team", "get_user", "get_service_account", "get_build",
     "get_build_for_job", "lookup_jobs_in_build", "get_test_assets"}

Answered(status) == tool_call.outcome = [kind |-> "status", status |-> status]

\* C14: when the vendor answers 404, get_job_details, get_team, get_user,
\* get_service_account, get_build, get_build_for_job, lookup_jobs_in_build and
\* get_test_assets return a dict with an error message, the offending
\* identifier, possible_reasons and suggestions.
C14_NotFoundDiagnostic ==
    (ToolReturned(DiagnosticTools) /\ Answered(404))
        => /\ tool_result.raised = "no"
           /\ tool_result.type = "dict"
           /\ {"error", "possible_reasons", "suggestions"} \subseteq DOMAIN tool_result.value
           /\ \E id \in {"job_id", "team_id", "user_id", "service_account_id", "build_id"} :
                  /\ id \in DOMAIN tool_result.value
                  /\ id = IdentifierKey(tool_call.tool)

C14_Witness ==
    /\ ToolReturned({"get_job_details"})
    /\ Answered(404)
    /\ tool_result.raised = "no"
    /\ DOMAIN tool_result.value = {"error", "job_id", "possible_reasons", "suggestions"}

\* C17: the query parameters a tool sends contain an optional argument, with
\* the value supplied, if and only if the caller supplied a value other than
\* None for it: 0, False and "" are sent, None is left out.
C17_NonNullArgumentsSent ==
    (tool_call.tool \in PassesParams /\ Len(tool_sent) = 1)
        => \A n \in DOMAIN tool_call.args :
               IF tool_call.args[n] # None
               THEN n \in DOMAIN tool_sent[1] /\ tool_sent[1][n] = tool_call.args[n][1]
               ELSE n \notin DOMAIN tool_sent[1] \/ n \in DOMAIN FixedParams(tool_call.tool)

\* the body has every field the model and its items declare (it may have more)
Validates(schema, body) ==
    /\ body.is_json
    /\ TopFields \subseteq DOMAIN body.v
    /\ \A i \in 1..Len(body.v["results"]) :
           ItemFields(schema) \subseteq DOMAIN body.v["results"][i]

DeclaredTypes(body) == body.v["count"].t = "int"

ConflictingArgs(args) ==
    /\ args["bundleId"] # None /\ args["bundleId"][1].v # ""
    /\ \/ args["packageName"] # None /\ args["packageName"][1].v # ""
       \/ args["activityName"] # None /\ args["activityName"][1].v # ""

\* C20: launch_app called with bundleId together with packageName or
\* activityName ends in an exception raised to the caller, not in a returned
\* value.
C20_ConflictRaises ==
    (ToolReturned({"launch_app"}) /\ ConflictingArgs(tool_call.args))
        => tool_result.raised # "no"

\* C21: get_recent_jobs returns the job records the transport delivered as a
\* sequence in the same order: its result is that list, of the same length
\* and with the same first element.
C21_RecentJobsAsDelivered ==
    (ToolReturned({"get_recent_jobs"}) /\ Answered(200) /\ tool_call.body.is_json)
        => /\ tool_result.raised = "no"
           /\ tool_result.type = "list"
           /\ tool_result.value = tool_call.body.v

NetworkError == tool_call.outcome.kind = "request_error"

AppiumReturned(tools) ==
    tool_pc = "returned" /\ tool_call.agent = "appium" /\ tool_call.tool \in tools

\* C23: appium_get_text never completes without having sent the request for
\* the element's text and without returning either an object that holds the
\* text or an error object.
C23_GetTextRequestsAndReturns ==
    AppiumReturned({"appium_get_text"})
        => /\ Len(tool_sent) = 1
           /\ tool_result.raised = "no"
           /\ tool_result.type = "dict"
           /\ \/ "text" \in DOMAIN tool_result.value
              \/ "error" \in DOMAIN tool_result.value

GestureTools ==
    {"appium_tap", "appium_swipe", "appium_type", "appium_long_press",
     "appium_scroll", "appium_find_element", "appium_tap_element"}

\* C26: tap, swipe, type, long press, scroll, find element and tap element,
\* given a session URL in which "/sessions/" does not occur, end by raising
\* to the caller and send no HTTP request.
C26_MalformedUrlRaises ==
    (AppiumReturned(GestureTools) /\ SessionsAt(tool_call.session_url) = {})
        => /\ tool_result.raised # "no"
           /\ tool_sent = <<>>

\* the requests of a get_log_json_file invocation are in order: the manifest
\* request first; a second request only when the manifest step produced a
\* manifest with a string under sauce-log, and then for exactly that value
LogRequestsInOrder(inv, requests) ==
    /\ Len(requests) \in {1, 2}
    /\ requests[1] = ManifestRequest(inv.job)
    /\ Len(requests) = 2 =>
           /\ inv.asset_list.type = "json"
           /\ "sauce-log" \in DOMAIN inv.asset_list.v
           /\ inv.asset_list.v["sauce-log"].type = "str"
           /\ requests[2] = AssetRequest(inv.job, inv.asset_list.v["sauce-log"].v)

\* C24: get_log_json_file sends the manifest request first and the log
\* request second; the log request is sent only after the manifest request
\* returned a manifest with a string under sauce-log, its path is that value,
\* and when the manifest step fails no log request is sent.
C24_ManifestThenLog ==
    /\ \A t \in Tasks :
           call[t].op = "get_log_json_file" => LogRequestsInOrder(call[t], sent[t])
    /\ result.call.op = "get_log_json_file" =>
           /\ LogRequestsInOrder(result.call, result.sent)
           /\ (\/ result.call.asset_list.type # "json"
               \/ "sauce-log" \notin DOMAIN result.call.asset_list.v
               \/ result.call.asset_list.v["sauce-log"].type # "str")
                  => Len(result.sent) = 1

C24_Witness ==
    /\ result.call.op = "get_log_json_file"
    /\ result.ret.kind = "log"
    /\ Len(result.sent) = 2
    /\ result.sent[2] = AssetRequest(result.call.job, "log.json")

C25_WitnessOtherCriterion ==
    /\ Len(f_out) = 1
    /\ f_criteria.filter_category = Some(cat_third_party)
    /\ Truthy(f_criteria.status_codes)
    /\ Len(f_entries) = 2
    /\ Len(f_out[1]) = 1

\* the arguments of an RDC tool that fail its local validation: a state
\* outside the tool's list, an os that is neither android nor ios in any
\* letter case, a feature flag that is not supported, launch_app without
\* bundleId and without packageName, an empty url, an empty shell command
FailsLocalValidation(tool, args) ==
    CASE tool = "list_device_status" ->
            /\ args["state"] # None
            /\ args["state"][1].v \notin
                   {"AVAILABLE", "IN_USE", "CLEANING", "REBOOTING", "MAINTENANCE", "OFFLINE"}
      [] tool = "list_device_sessions" ->
            /\ args["state"] # None
            /\ args["state"][1].v \notin
                   {"PENDING", "CREATING", "ACTIVE", "CLOSING", "CLOSED", "ERRORED"}
      [] tool = "allocate_device_and_create_session" ->
            /\ args["os"] # None
            /\ Lower(args["os"][1].v) \notin {os_android, os_ios}
      [] tool = "install_app_from_storage" ->
            /\ args["features"] # None
            /\ \E f \in args["features"][1].v : f \notin valid_features
      [] tool = "launch_app" ->
            /\ args["bundleId"] = None \/ args["bundleId"][1].v = ""
            /\ args["packageName"] = None \/ args["packageName"][1].v = ""
      [] tool = "open_url_or_deeplink"  -> args["url"][1].v = ""
      [] tool = "execute_shell_command" -> args["adbShellCommand"][1].v = ""
      [] OTHER -> FALSE

\* C27: a tool of the RDC server whose arguments fail its local validation
\* returns an error object and issues no HTTP request.
C27_LocalValidationNoRequest ==
    (ToolReturned(RdcTools) /\ FailsLocalValidation(tool_call.tool, tool_call.args)) =>
        /\ tool_result.raised = "no"
        /\ tool_result.type = "dict"
        /\ "error" \in DOMAIN tool_result.value
        /\ tool_sent = <<>>

\* list_device_status with a state in the wrong letter case
C27_Witness ==
    /\ ToolReturned({"list_device_status"})
    /\ tool_call.args["state"] = Some(PyStr("available"))
    /\ tool_result = Ret("dict", Dict({"error", "valid_states", "suggestions"}))
    /\ tool_sent = <<>>

\* an unsupported feature flag next to a supported one
C27_WitnessFeatures ==
    /\ ToolReturned({"install_app_from_storage"})
    /\ tool_call.args["features"] = Some(PyDict({"networkCapture", "rootAccess"}))
    /\ "valid_features" \in DOMAIN tool_result.value
    /\ tool_sent = <<>>

\* arguments that pass: a request is sent, with the os in lower case accepted
C27_WitnessPasses ==
    /\ ToolReturned({"allocate_device_and_create_session"})
    /\ tool_call.args["os"] = Some(PyStr(os_iOS))
    /\ Len(tool_sent) = 1

\* C28: when the API answers 401, list_device_status, list_device_sessions,
\* get_session_details and allocate_device_and_create_session return the
\* not-authorized diagnostic: an object with an error message, possible
\* reasons and suggestions.
C28_NotAuthorizedDiagnostic ==
    (ToolReturned(NotAuthorizedTools) /\ Answered(401)) =>
        /\ tool_result.raised = "no"
        /\ {"error", "possible_reasons", "suggestions"} \subseteq DOMAIN tool_result.value

\* invocation t is a filter_har_data call for `job` whose HAR asset request
\* has been sent
FetchingHar(t, job) ==
    /\ call[t].op = "filter_har_data" /\ call[t].job = job
    /\ Len(sent[t]) = 2

\* C29: when two filter_har_data invocations for one job overlap while the
\* job is not cached, the HAR asset of that job is requested only once: the
\* two invocations never both send the asset request.
C29_OverlapFetchesOnce ==
    \A job \in Jobs : \A t, u \in Tasks :
        t # u => ~(FetchingHar(t, job) /\ FetchingHar(u, job))

\* C30: the cache holds only documents obtained from a successful fetch: a
\* job is in the cache only with the HAR document a 200 delivered, so after
\* a fetch that ended in an error descriptor the job is still absent.
C30_CacheHoldsOnlyFetchedHar ==
    \A job \in Jobs : IsCached(har_cache, job) => har_cache[job].kind = "har"

===========================================================================
